---------------------------- MODULE Spec2Model ----------------------------
(***************************************************************************)
(* Model of the virtualized-list engine of cristianloghin/vir.             *)
(*                                                                         *)
(* The repository holds two generations of the engine:                     *)
(*   - the "index" engine: core/Measurements.ts (generation-stamped        *)
(*     position index and maximize controller) behind the facade of        *)
(*     unnamed/part_003 (VirtualizedListManager) with the scroll adapter   *)
(*     of unnamed/part_004 (ScrollContainer);                              *)
(*   - the "reconciler" engine: core/VirtualizedListManager.ts (own        *)
(*     measurement map, full rebuild) with the TransitionManager of        *)
(*     core/VirtualizationCalculator.ts and core/ScrollContainer.ts.       *)
(* Both are modelled over the same variables; a specification runs one of  *)
(* them.  Item ids are numbers, NULL (0) stands for null/undefined.         *)
(* JavaScript runs one task at a time: every action is one whole handler.  *)
(* requestAnimationFrame callbacks wait in rafQueue (FIFO), the coalesced  *)
(* notification waits as one of the microtasks counted in microtasks.      *)
(***************************************************************************)
EXTENDS Integers, Sequences, FiniteSets, TLC

VARIABLES
  orderedIds,          \* data source: dataProvider.getOrderedIds()
  providerSubscribed,  \* data source: callbacks of the engine in its subscriber set
  measurements,        \* Measurements.measurements : id -> entry (partial)
  maximizedItemId,     \* Measurements.maximizedItemId
  maximizedHeight,     \* VirtualizedListManager.maximizedHeight (reconciler)
  currentVersion,      \* Measurements.currentVersion
  now,                 \* Date.now(), in milliseconds
  rafQueue,            \* pending requestAnimationFrame callbacks
  notifyScheduled,     \* VirtualizedListManager.notifyScheduled
  microtasks,          \* host: queued microtasks of notify
  invoked,             \* history: per subscriber, its invocations since the
                       \* notification now pending or last delivered was requested
  requests,            \* history: notify() calls since the last delivery, counted
                       \* up to MaxBurst
  subscribers,         \* VirtualizedListManager.subscribers
  isInitialized,       \* VirtualizedListManager.isInitialized
  dataUnsubscribe,     \* VirtualizedListManager.dataUnsubscribe is non-null
  scrollContainerElement, \* ScrollContainer.scrollContainerElement
  containerHeight,     \* ScrollContainer.containerHeight
  scrollTop,           \* ScrollContainer.scrollTop
  lastKnownScrollTop,  \* ScrollContainer.lastKnownScrollTop
  scrollTopRatio,      \* ScrollContainer.scrollTopRatio, a fraction <<num, den>>
  showScrollToTop,     \* ScrollContainer.showScrollToTop
  resizeObserver,      \* ScrollContainer.resizeObserver is non-null
  scrollEventCleanup,  \* ScrollContainer.scrollEventCleanup: NULL or its element
  dom,                 \* host: per element scrollTop, listeners, observers
  lastDataSnapshot,    \* TransitionManager.lastDataSnapshot
  pendingScrollContext,\* TransitionManager.pendingScrollContext
  rebuiltFor,          \* history: the dataset change the index was last rebuilt for
  lastMeasured,        \* history: per id, the last height reported while not
                       \* maximized, NULL before the first report
  hist,                \* history: what the last step did
  disposed,            \* history: dispose() has run
  unsubscribeCalls,    \* history: number of dataUnsubscribe() invocations
  dataChanges,         \* history: number of dataset changes published
  maximizationConfig,  \* VirtualizedListManager.maximizationConfig (immutable)
  fn                   \* inputs and result of the pure functions under check

indexVars == <<measurements, maximizedItemId, maximizedHeight, currentVersion>>
scrollVars == <<scrollContainerElement, containerHeight, scrollTop,
                lastKnownScrollTop, scrollTopRatio, showScrollToTop,
                resizeObserver, scrollEventCleanup>>
managerVars == <<subscribers, isInitialized, dataUnsubscribe>>
notifyVars == <<notifyScheduled, microtasks, invoked, requests>>
tmVars == <<lastDataSnapshot, pendingScrollContext, rebuiltFor, lastMeasured>>
envVars == <<orderedIds, providerSubscribed, now, dom>>
histVars == <<hist, disposed, unsubscribeCalls, dataChanges>>

vars == <<orderedIds, providerSubscribed, measurements, maximizedItemId,
          maximizedHeight, currentVersion, now, rafQueue, notifyScheduled,
          microtasks, invoked, requests,
          subscribers, isInitialized, dataUnsubscribe, scrollContainerElement,
          containerHeight, scrollTop, lastKnownScrollTop, scrollTopRatio,
          showScrollToTop, resizeObserver, scrollEventCleanup, dom,
          lastDataSnapshot, pendingScrollContext, rebuiltFor, lastMeasured,
          hist, disposed,
          unsubscribeCalls, dataChanges, maximizationConfig, fn>>

---------------------------------------------------------------------------
(* Bounds of the model. *)
MaxVersion == 1      \* dataset changes per behaviour (index engine)
MaxRaf == 1          \* pending animation-frame callbacks
MaxDispose == 2      \* dispose() calls in a row
MaxInitialize == 2   \* releases of a subscription before initialize() stops
MaxChanges == 2      \* dataset changes per behaviour (reconciler engine)
MaxClassifyId == 5   \* ids 1..MaxClassifyId form the classified sets
MaxBurst == 2        \* notify() calls of one burst that are told apart
MaxRebuilds == 2     \* dataset changes per behaviour (SpecRebuild)
ClockStep == 40000   \* milliseconds one clock step adds
MaxNow == 80000      \* the clock stops advancing here
MaxVisibleId == 3    \* ids 1..MaxVisibleId form the lists of SpecVisible
MaxItems == 1000     \* items of the list of SpecViewport
LongCount == 25      \* items of the long lists of SpecRecovery
Gap == 10            \* config.gap chosen for the runs

(* Program constants. *)
NULL == 0
DefaultItemHeight == 100
Overscan == 5
StaleWindow == 60000
DefaultContainerPercentage == 80
DefaultNeighborSpace == 120
MinMaximizedHeight == 200
ScrollToTopThreshold == 200
SmallFilteredCount == 20

Ids == {1, 2}
ReportedHeights == {0, 50, 120}
CustomHeights == {NULL}
LifecycleHeights == {50, 120}
ReconcilerHeights == {50}
Elements == {1}
ClientHeights == {300, 500}
ScrollOffsets == {0, 250}
SubscriberIds == {1, 2}
ScrollSubscribers == {1}

(* the default configuration of the constructor, and the natural mode *)
FixedConfig == [mode |-> "fixed", maxHeight |-> NULL,
                containerPercentage |-> DefaultContainerPercentage,
                neighborSpace |-> DefaultNeighborSpace]
NaturalConfig == [FixedConfig EXCEPT !.mode = "natural"]

Max(a, b) == IF a >= b THEN a ELSE b
Min(a, b) == IF a <= b THEN a ELSE b
Abs(a) == IF a < 0 THEN 0 - a ELSE a

SeqToSet(s) == {s[i] : i \in 1..Len(s)}
(* every duplicate-free sequence over S: the snapshots a data source may hold *)
Orders(S) == {s \in UNION {[1..n -> S] : n \in 0..Cardinality(S)} :
                \A i, j \in 1..Len(s) : i # j => s[i] # s[j]}
IndexOf(s, x) == IF x \in SeqToSet(s)
                 THEN CHOOSE i \in 1..Len(s) : s[i] = x
                 ELSE 0

---------------------------------------------------------------------------
(* Position index: core/Measurements.ts *)

Entry(h, t, v, u) == [height |-> h, top |-> t, version |-> v, lastUsed |-> u]

(* Map.set(id, e) *)
Put(m, id, e) == [x \in (DOMAIN m) \cup {id} |-> IF x = id THEN e ELSE m[x]]

(* Map restricted to the keys in keep (Map.delete of the others) *)
Restrict(m, keep) == [x \in (DOMAIN m) \cap keep |-> m[x]]

(* the loop of updateMeasurements: every listed id that has an entry gets  *)
(* top = currentTop and a fresh lastUsed; ids without an entry are skipped *)
RECURSIVE ShiftTops(_, _, _, _)
ShiftTops(m, ids, currentTop, t) ==
  IF ids = <<>> THEN m
  ELSE LET id == Head(ids) IN
       IF id \in DOMAIN m
       THEN ShiftTops([m EXCEPT ![id].top = currentTop, ![id].lastUsed = t],
                      Tail(ids), currentTop + m[id].height + Gap, t)
       ELSE ShiftTops(m, Tail(ids), currentTop, t)

(* updateMeasurements(itemId, itemTop): findIndex gives -1 for an id that  *)
(* is not in the order, and slice(0) is then the whole list                *)
updateMeasurements(m, order, itemId, itemTop, t) ==
  ShiftTops(m, SubSeq(order, IndexOf(order, itemId) + 1, Len(order)), itemTop, t)

(* the loop of buildMeasurements *)
RECURSIVE BuildLoop(_, _, _, _, _)
BuildLoop(m, ids, currentTop, v, t) ==
  IF ids = <<>> THEN m
  ELSE LET id == Head(ids) IN
       IF id \in DOMAIN m
       THEN BuildLoop([m EXCEPT ![id].top = currentTop, ![id].lastUsed = t,
                                ![id].version = v],
                      Tail(ids), currentTop + m[id].height + Gap, v, t)
       ELSE BuildLoop(Put(m, id, Entry(DefaultItemHeight, currentTop, v, t)),
                      Tail(ids), currentTop + DefaultItemHeight + Gap, v, t)

(* the purge without its lastUsed test *)
cleanupStaleMeasurements_noAgeTest(m, v, t) ==
  Restrict(m, {id \in DOMAIN m : ~(m[id].version < v - 1)})

(* Measurements.cleanupStaleMeasurements *)
cleanupStaleMeasurements(m, v, t) ==
  Restrict(m, {id \in DOMAIN m :
                 ~(m[id].version < v - 1 \/ m[id].lastUsed < t - StaleWindow)})

(* a rebuild whose running top is not reset to 0 but carried over from the *)
(* first entry of the previous layout                                      *)
buildMeasurements_carriesTop(m, order, v, t) ==
  LET start == IF order # <<>> /\ Head(order) \in DOMAIN m
               THEN m[Head(order)].top + m[Head(order)].height
               ELSE 0 IN
  cleanupStaleMeasurements(BuildLoop(m, order, start, v, t), v, t)

(* Measurements.buildMeasurements for the published order *)
buildMeasurements(m, order, v, t) ==
  cleanupStaleMeasurements(BuildLoop(m, order, 0, v, t), v, t)

(* what a lookup returns when it has no entry to give (undefined) *)
Undefined == [undefined |-> TRUE]

(* the lookup without its generation test *)
getMeasurementById_anyVersion(m, id, v) ==
  IF id \in DOMAIN m THEN m[id] ELSE Undefined

(* Measurements.getMeasurementById *)
getMeasurementById(m, id, v) ==
  IF id \in DOMAIN m /\ m[id].version = v THEN m[id] ELSE Undefined

(* what getItemById returns for an id the data source does not hold (null) *)
NoItem == [null |-> TRUE]

(* a data source that resolves every id it is asked for *)
getItemById_alwaysFound(items, id) == [id |-> id]

(* DataProvider.getItemById over the ids of its selected items; the facade  *)
(* takes any DataProviderInterface, so items is what that source resolves   *)
getItemById(items, id) ==
  IF id \in items THEN [id |-> id] ELSE NoItem

(* VirtualizedListManager.getVisibleItems (part_003): the ordered ids whose *)
(* looked-up entry meets the window widened by the overscan and that the    *)
(* data source resolves, in list order                                      *)
RECURSIVE VisibleLoop(_, _, _, _, _, _, _)
VisibleLoop(m, ids, v, maxId, viewportTop, viewportBottom, items) ==
  IF ids = <<>> THEN <<>>
  ELSE LET id == Head(ids)
           measurement == getMeasurementById(m, id, v)
           item == getItemById(items, id)
           rest == VisibleLoop(m, Tail(ids), v, maxId, viewportTop,
                               viewportBottom, items) IN
       IF measurement # Undefined
          /\ measurement.top + measurement.height >= viewportTop
          /\ measurement.top <= viewportBottom
          /\ item # NoItem
       THEN <<[id |-> item.id, measurement |-> measurement,
               isMaximized |-> (item.id = maxId)]>> \o rest
       ELSE rest

getVisibleItems(m, order, v, maxId, sTop, cHeight, items) ==
  LET overscanHeight == Overscan * DefaultItemHeight IN
  VisibleLoop(m, order, v, maxId, Max(0, sTop - overscanHeight),
              sTop + cHeight + overscanHeight, items)

RECURSIVE SumCurrent(_, _, _)
SumCurrent(m, ids, v) ==
  IF ids = <<>> THEN [height |-> 0, count |-> 0]
  ELSE LET rest == SumCurrent(m, Tail(ids), v)
           id == Head(ids) IN
       IF id \in DOMAIN m /\ m[id].version = v
       THEN [height |-> rest.height + m[id].height, count |-> rest.count + 1]
       ELSE rest

getTotalHeight(m, order, v) ==
  LET totalCount == Len(order)
      totalGaps == Max(0, totalCount - 1) * Gap IN
  IF DOMAIN m = {}
  THEN totalCount * DefaultItemHeight + totalGaps
  ELSE LET s == SumCurrent(m, order, v) IN
       s.height + (totalCount - s.count) * DefaultItemHeight + totalGaps

(* calculateMaximizedHeight; cfg.percentage is in percent, 0/NULL = unset *)
calculateMaximizedHeight(cfg, customHeight, cHeight) ==
  IF customHeight # NULL THEN customHeight
  ELSE IF cfg.mode = "natural" THEN 0
  ELSE IF cfg.mode = "custom"
       THEN (IF cfg.maxHeight # NULL THEN cfg.maxHeight ELSE (cHeight * 80) \div 100)
  ELSE LET percentage == IF cfg.containerPercentage # NULL
                         THEN cfg.containerPercentage
                         ELSE DefaultContainerPercentage
           neighborSpace == IF cfg.neighborSpace # NULL
                            THEN cfg.neighborSpace
                            ELSE DefaultNeighborSpace
           h == (cHeight * percentage) \div 100
           capped == IF h > cHeight - neighborSpace
                     THEN cHeight - neighborSpace ELSE h IN
       Max(capped, MinMaximizedHeight)

---------------------------------------------------------------------------
(* History and scheduling helpers *)

Op(name, id, arg) == [op |-> name, id |-> id, arg |-> arg]
(* a numeric argument of an operation, as the record the history keeps       *)
Num(x) == [n |-> x]

(* a pending requestAnimationFrame callback with the values its closure     *)
(* captured; live records (history) that dispose() had not run yet         *)
Raf(kind, id, itemTop) ==
  [kind |-> kind, id |-> id, itemTop |-> itemTop, live |-> ~disposed]

(* notify without the notifyScheduled test: every call queues a microtask *)
notify_uncoalesced ==
  /\ notifyScheduled' = TRUE
  /\ microtasks' = microtasks + 1
  /\ invoked' = IF notifyScheduled THEN invoked ELSE [s \in SubscriberIds |-> 0]
  /\ requests' = Min(requests + 1, MaxBurst)

(* VirtualizedListManager.notify: the first call since the last delivery   *)
(* sets the flag and queues one microtask; later calls do nothing          *)
notify ==
  IF ~notifyScheduled
  THEN /\ notifyScheduled' = TRUE
       /\ microtasks' = microtasks + 1
       /\ invoked' = [s \in SubscriberIds |-> 0]
       /\ requests' = Min(requests + 1, MaxBurst)
  ELSE /\ UNCHANGED <<notifyScheduled, microtasks, invoked>>
       /\ requests' = Min(requests + 1, MaxBurst)

(* the loop without the try/catch: the first throwing callback ends it    *)
RECURSIVE forEachGuarded_noCatch(_, _)
forEachGuarded_noCatch(subs, throwing) ==
  IF subs = <<>> THEN [called |-> <<>>, propagated |-> FALSE]
  ELSE IF Head(subs) \in throwing
       THEN [called |-> <<Head(subs)>>, propagated |-> TRUE]
       ELSE LET rest == forEachGuarded_noCatch(Tail(subs), throwing) IN
            [called |-> <<Head(subs)>> \o rest.called,
             propagated |-> rest.propagated]

(* subscribers.forEach with a try/catch around each callback: every        *)
(* callback is called in insertion order, and no error leaves the loop     *)
RECURSIVE forEachGuarded(_, _)
forEachGuarded(subs, throwing) ==
  IF subs = <<>> THEN [called |-> <<>>, propagated |-> FALSE]
  ELSE LET rest == forEachGuarded(Tail(subs), throwing) IN
       [called |-> <<Head(subs)>> \o rest.called, propagated |-> rest.propagated]

CountIn(seq, x) == Cardinality({i \in 1..Len(seq) : seq[i] = x})

(* the microtask of notify; the callbacks in throwing throw when called *)
NotifyMicrotask(throwing) ==
  /\ microtasks > 0
  /\ microtasks' = microtasks - 1
  /\ notifyScheduled' = FALSE
  /\ requests' = 0
  /\ LET d == forEachGuarded(subscribers, throwing) IN
     /\ invoked' = [s \in SubscriberIds |-> invoked[s] + CountIn(d.called, s)]
     /\ hist' = Op("notified", NULL,
                   [called |-> d.called, propagated |-> d.propagated,
                    threw |-> throwing \cap SeqToSet(d.called),
                    requests |-> requests])
  /\ UNCHANGED <<indexVars, scrollVars, managerVars, tmVars, envVars, rafQueue,
                 disposed, unsubscribeCalls, dataChanges, maximizationConfig, fn>>

(* the microtask of notify when no subscriber throws *)
RunMicrotask == NotifyMicrotask({})

subscribe(s) ==
  /\ subscribers' = IF s \in SeqToSet(subscribers) THEN subscribers
                     ELSE Append(subscribers, s)
  /\ hist' = Op("subscribe", s, Num(NULL))
  /\ UNCHANGED <<indexVars, scrollVars, tmVars, envVars, rafQueue,
                 notifyVars, isInitialized, dataUnsubscribe,
                 disposed, unsubscribeCalls, dataChanges, maximizationConfig, fn>>

---------------------------------------------------------------------------
(* Scroll adapter: unnamed/part_004 (ScrollContainer) *)

(* scrollTop / Math.max(1, totalHeight - containerHeight), kept exact *)
Ratio(s, totalHeight, cHeight) == <<s, Max(1, totalHeight - cHeight)>>

TotalHeightNow == getTotalHeight(measurements, orderedIds, currentVersion)

(* element.scrollTo / element.scrollTop = v: the host keeps offsets >= 0 *)
SetDomScrollTop(d, el, v) == [d EXCEPT ![el].scrollTop = Max(0, v)]

(* ScrollContainer.handleScroll on the scroll fields and the notification *)
ScrollContainer_handleScroll(s, totalHeight) ==
  IF Abs(s - lastKnownScrollTop) < 1
  THEN UNCHANGED <<scrollTop, lastKnownScrollTop, showScrollToTop,
                   scrollTopRatio, notifyVars>>
  ELSE /\ scrollTop' = s
       /\ lastKnownScrollTop' = s
       /\ showScrollToTop' = (s > ScrollToTopThreshold)
       /\ scrollTopRatio' = IF totalHeight > containerHeight
                            THEN Ratio(s, totalHeight, containerHeight)
                            ELSE scrollTopRatio
       /\ notify

(* ScrollContainer.scrollToItemById: the offset it scrolls to, or "none" *)
ScrollTarget(itemId, isMaximized, hasMeasurement, m, totalHeight) ==
  IF scrollContainerElement = NULL THEN [issue |-> FALSE, top |-> 0]
  ELSE IF ~hasMeasurement
  THEN IF IndexOf(orderedIds, itemId) # 0
       THEN [issue |-> TRUE,
             top |-> (IndexOf(orderedIds, itemId) - 1) * DefaultItemHeight]
       ELSE [issue |-> FALSE, top |-> 0]
  ELSE LET itemTop == m.top
           itemHeight == m.height
           viewTop == scrollTop
           viewBottom == viewTop + containerHeight
           maxScrollTop == Max(0, totalHeight - containerHeight)
           clamp(t) == Max(0, Min(t, maxScrollTop)) IN
       IF isMaximized
       THEN [issue |-> TRUE,
             top |-> clamp(itemTop - ((containerHeight - itemHeight) \div 2))]
       ELSE IF itemTop < viewTop
       THEN [issue |-> TRUE, top |-> clamp(itemTop)]
       ELSE IF itemTop + itemHeight > viewBottom
       THEN [issue |-> TRUE, top |-> clamp(itemTop + itemHeight - containerHeight)]
       ELSE [issue |-> FALSE, top |-> 0]

(* VirtualizedListManager.scrollToItemById (part_003) on the host surface *)
Manager_scrollTarget(itemId) ==
  LET measurement == getMeasurementById(measurements, itemId, currentVersion)
      has == measurement # Undefined IN
  ScrollTarget(itemId, itemId = maximizedItemId, has,
               IF has THEN measurement ELSE Entry(0, 0, 0, 0), TotalHeightNow)

Manager_scrollToItemById(itemId) ==
  LET t == Manager_scrollTarget(itemId) IN
  dom' = IF t.issue THEN SetDomScrollTop(dom, scrollContainerElement, t.top)
         ELSE dom

(* init without the call of the previous scrollEventCleanup *)
ScrollContainer_init_noCleanup(el) ==
  /\ scrollContainerElement' = el
  /\ containerHeight' = dom[el].clientHeight
  /\ resizeObserver' = TRUE
  /\ dom' = [dom EXCEPT ![el].listeners = @ + 1, ![el].observers = @ + 1]
  /\ rafQueue' = Append(rafQueue, Raf("scroll", NULL, 0))
  /\ notify
  /\ scrollEventCleanup' = el

(* ScrollContainer.init *)
ScrollContainer_init(el) ==
  LET d1 == IF scrollEventCleanup # NULL
            THEN [dom EXCEPT ![scrollEventCleanup].listeners = @ - 1,
                             ![scrollEventCleanup].observers =
                                IF resizeObserver THEN 0 ELSE @]
            ELSE dom IN
  /\ scrollContainerElement' = el
  /\ containerHeight' = dom[el].clientHeight
  /\ resizeObserver' = TRUE
  /\ dom' = [d1 EXCEPT ![el].listeners = @ + 1, ![el].observers = @ + 1]
  /\ rafQueue' = Append(rafQueue, Raf("scroll", NULL, 0))
  /\ notify
  /\ scrollEventCleanup' = el

(* ScrollContainer.cleanup *)
ScrollContainer_cleanup ==
  /\ resizeObserver' = FALSE
  /\ scrollEventCleanup' = NULL
  /\ scrollContainerElement' = NULL
  /\ dom' = IF scrollEventCleanup # NULL
            THEN [dom EXCEPT ![scrollEventCleanup].listeners = @ - 1,
                             ![scrollEventCleanup].observers = 0]
            ELSE IF resizeObserver
            THEN [e \in DOMAIN dom |-> [dom[e] EXCEPT !.observers = 0]]
            ELSE dom

---------------------------------------------------------------------------
(* Index engine: facade of unnamed/part_003 over core/Measurements.ts *)

(* measureItem without its first line, the height <= 0 test *)
MeasureResult_noHeightTest(m, order, id, height, v, t) ==
  LET exists == id \in DOMAIN m
      hasChanged == ~exists \/ Abs(m[id].height - height) > 1 IN
  IF ~hasChanged
  THEN [changed |-> FALSE, m |-> m, itemTop |-> 0]
  ELSE LET top == IF exists THEN m[id].top ELSE 0
           m1 == Put(m, id, Entry(height, top, v, t)) IN
       [changed |-> TRUE,
        m |-> updateMeasurements(m1, order, id, top + height + Gap, t),
        itemTop |-> top + height + Gap]

(* Measurements.measureItem: the entry and tops it leaves, and the deferred *)
(* update it schedules; changed = FALSE when the report is discarded        *)
MeasureResult(m, order, id, height, v, t) ==
  LET exists == id \in DOMAIN m
      hasChanged == ~exists \/ Abs(m[id].height - height) > 1 IN
  IF height <= 0 \/ ~hasChanged
  THEN [changed |-> FALSE, m |-> m, itemTop |-> 0]
  ELSE LET top == IF exists THEN m[id].top ELSE 0
           m1 == Put(m, id, Entry(height, top, v, t)) IN
       [changed |-> TRUE,
        m |-> updateMeasurements(m1, order, id, top + height + Gap, t),
        itemTop |-> top + height + Gap]

measureItem(id, height) ==
  LET r == MeasureResult(measurements, orderedIds, id, height, currentVersion, now) IN
  /\ r.changed => Len(rafQueue) < MaxRaf
  /\ measurements' = r.m
  /\ rafQueue' = IF r.changed
                 THEN Append(rafQueue, Raf("measure", id, r.itemTop))
                 ELSE rafQueue
  /\ hist' = Op("measureItem", id, Num(height))
  /\ UNCHANGED <<maximizedItemId, maximizedHeight, currentVersion, scrollVars,
                 managerVars, tmVars, envVars, notifyVars, disposed,
                 unsubscribeCalls, dataChanges, maximizationConfig, fn>>

(* Measurements.toggleMaximize: the maximized id after the call *)
(* a toggle that never returns to none-maximized *)
ToggledId_neverClears(current, itemId) == itemId

ToggledId(current, itemId) == IF current = itemId THEN NULL ELSE itemId

toggleMaximize(itemId, customMaximizedHeight) ==
  LET top == IF itemId \in DOMAIN measurements THEN measurements[itemId].top ELSE 0
      height == calculateMaximizedHeight(maximizationConfig,
                                         customMaximizedHeight, containerHeight) IN
  /\ maximizedItemId # itemId => Len(rafQueue) < MaxRaf
  /\ maximizedItemId' = ToggledId(maximizedItemId, itemId)
  /\ rafQueue' = IF maximizedItemId = itemId THEN rafQueue
                 ELSE Append(rafQueue, Raf("maximize", itemId, 0))
  /\ measurements' = updateMeasurements(measurements, orderedIds, itemId,
                                        top + height + Gap, now)
  /\ notify
  /\ hist' = Op("toggleMaximize", itemId, Num(customMaximizedHeight))
  /\ UNCHANGED <<maximizedHeight, currentVersion, scrollVars, managerVars,
                 tmVars, envVars, disposed, unsubscribeCalls,
                 dataChanges, maximizationConfig, fn>>

(* DataProvider.notify: every callback registered by setupDataSubscription *)
(* runs startNewVersion and buildMeasurements, one after the other         *)
RECURSIVE RunDataCallbacks(_, _, _, _, _)
RunDataCallbacks(m, order, v, n, t) ==
  IF n = 0 THEN m
  ELSE RunDataCallbacks(buildMeasurements(m, order, v + 1, t), order, v + 1, n - 1, t)

(* the data source publishes a new ordered set; the subscription callbacks *)
(* run synchronously                                                       *)
DataChangeWithin(newOrder, bound) ==
  /\ dataChanges < bound
  /\ dataChanges' = dataChanges + 1
  /\ orderedIds' = newOrder
  /\ IF providerSubscribed > 0
     THEN /\ currentVersion' = currentVersion + providerSubscribed
          /\ measurements' = RunDataCallbacks(measurements, newOrder,
                                               currentVersion, providerSubscribed, now)
          /\ notify
     ELSE UNCHANGED <<currentVersion, measurements, notifyVars>>
  /\ hist' = Op("dataChange", NULL,
                [newOrder |-> newOrder, same |-> newOrder = orderedIds,
                 after |-> hist.op,
                 purged |-> DOMAIN measurements \ DOMAIN measurements'])
  /\ UNCHANGED <<maximizedItemId, maximizedHeight, scrollVars, managerVars,
                 tmVars, providerSubscribed, now, dom, rafQueue, disposed,
                 unsubscribeCalls, maximizationConfig, fn>>

DataChange(newOrder) == DataChangeWithin(newOrder, MaxVersion)

(* the clock read by Date.now() advances between two handlers *)
Tick ==
  /\ now + ClockStep <= MaxNow
  /\ now' = now + ClockStep
  /\ hist' = Op("tick", NULL, Num(ClockStep))
  /\ UNCHANGED <<indexVars, scrollVars, managerVars, notifyVars, tmVars,
                 orderedIds, providerSubscribed, dom, rafQueue, disposed,
                 unsubscribeCalls, dataChanges, maximizationConfig, fn>>

setScrollContainer(el) ==
  /\ Len(rafQueue) < MaxRaf
  /\ ScrollContainer_init(el)
  /\ isInitialized' = TRUE
  /\ hist' = Op("setScrollContainer", el, Num(NULL))
  /\ UNCHANGED <<indexVars, tmVars, orderedIds, providerSubscribed, now,
                 scrollTop, lastKnownScrollTop, scrollTopRatio, showScrollToTop,
                 subscribers, dataUnsubscribe, disposed, unsubscribeCalls,
                 dataChanges, maximizationConfig, fn>>

handleScroll(s) ==
  /\ ScrollContainer_handleScroll(s, TotalHeightNow)
  /\ hist' = Op("handleScroll", NULL, Num(s))
  /\ UNCHANGED <<indexVars, tmVars, envVars, managerVars, rafQueue,
                 scrollContainerElement, containerHeight, resizeObserver,
                 scrollEventCleanup, disposed, unsubscribeCalls,
                 dataChanges, maximizationConfig, fn>>

(* scrollToTop = scrollToPosition(0) *)
scrollToTop ==
  /\ dom' = IF scrollContainerElement # NULL
            THEN SetDomScrollTop(dom, scrollContainerElement, 0)
            ELSE dom
  /\ hist' = Op("scrollToTop", NULL, Num(NULL))
  /\ UNCHANGED <<indexVars, tmVars, scrollVars, managerVars, orderedIds,
                 providerSubscribed, now, rafQueue, notifyVars,
                 disposed, unsubscribeCalls, dataChanges, maximizationConfig, fn>>

(* setupDataSubscription without the release of the previous subscription *)
setupDataSubscription_keepsPrevious ==
  /\ providerSubscribed' = providerSubscribed + 1
  /\ unsubscribeCalls' = unsubscribeCalls
  /\ dataUnsubscribe' = TRUE

(* VirtualizedListManager.setupDataSubscription *)
setupDataSubscription ==
  /\ providerSubscribed' = (IF dataUnsubscribe THEN Max(0, providerSubscribed - 1)
                            ELSE providerSubscribed) + 1
  /\ unsubscribeCalls' = IF dataUnsubscribe THEN unsubscribeCalls + 1
                         ELSE unsubscribeCalls
  /\ dataUnsubscribe' = TRUE

(* VirtualizedListManager.initialize; an aborted signal makes it throw     *)
(* before anything is changed                                              *)
initialize(aborted) ==
  /\ unsubscribeCalls < MaxInitialize
  /\ IF aborted
     THEN UNCHANGED <<providerSubscribed, unsubscribeCalls, dataUnsubscribe>>
     ELSE setupDataSubscription
  /\ hist' = Op("initialize", NULL, [aborted |-> aborted])
  /\ UNCHANGED <<indexVars, scrollVars, tmVars, orderedIds, now, dom, rafQueue,
                 notifyVars, subscribers, isInitialized, disposed, dataChanges,
                 maximizationConfig, fn>>

(* dispose with `this.dataUnsubscribe = null` left out *)
dispose_keepsUnsubscribe ==
  /\ hist.op = "dispose" => hist.arg.n < MaxDispose
  /\ ScrollContainer_cleanup
  /\ dataUnsubscribe' = dataUnsubscribe
  /\ providerSubscribed' = IF dataUnsubscribe THEN Max(0, providerSubscribed - 1)
                           ELSE providerSubscribed
  /\ unsubscribeCalls' = IF dataUnsubscribe THEN unsubscribeCalls + 1
                         ELSE unsubscribeCalls
  /\ subscribers' = <<>>
  /\ isInitialized' = FALSE
  /\ disposed' = TRUE
  /\ hist' = Op("dispose", NULL, Num(IF hist.op = "dispose" THEN hist.arg.n + 1 ELSE 1))
  /\ UNCHANGED <<indexVars, tmVars, orderedIds, now, rafQueue, notifyVars,
                 containerHeight, scrollTop, lastKnownScrollTop, scrollTopRatio,
                 showScrollToTop, dataChanges, maximizationConfig, fn>>

(* VirtualizedListManager.dispose *)
dispose ==
  /\ hist.op = "dispose" => hist.arg.n < MaxDispose
  /\ ScrollContainer_cleanup
  /\ dataUnsubscribe' = FALSE
  /\ providerSubscribed' = IF dataUnsubscribe THEN Max(0, providerSubscribed - 1)
                           ELSE providerSubscribed
  /\ unsubscribeCalls' = IF dataUnsubscribe THEN unsubscribeCalls + 1
                         ELSE unsubscribeCalls
  /\ subscribers' = <<>>
  /\ isInitialized' = FALSE
  /\ disposed' = TRUE
  /\ hist' = Op("dispose", NULL, Num(IF hist.op = "dispose" THEN hist.arg.n + 1 ELSE 1))
  /\ UNCHANGED <<indexVars, tmVars, orderedIds, now, rafQueue, notifyVars,
                 containerHeight, scrollTop, lastKnownScrollTop, scrollTopRatio,
                 showScrollToTop, dataChanges, maximizationConfig, fn>>

(* the surface scrolls; its scroll listeners call handleExternalScroll *)
UserScroll(el, s) ==
  /\ Len(rafQueue) < MaxRaf
  /\ dom[el].scrollTop # s
  /\ dom' = [dom EXCEPT ![el].scrollTop = s]
  /\ rafQueue' = IF dom[el].listeners > 0
                 THEN Append(rafQueue, Raf("scroll", NULL, 0))
                 ELSE rafQueue
  /\ hist' = Op("userScroll", el, Num(s))
  /\ UNCHANGED <<indexVars, tmVars, scrollVars, managerVars, orderedIds,
                 providerSubscribed, now, notifyVars, disposed,
                 unsubscribeCalls, dataChanges, maximizationConfig, fn>>

(* the ResizeObserver callback when the new height is applied before the   *)
(* ratio is taken                                                          *)
Resize_heightFirst(el, newHeight) ==
  /\ Len(rafQueue) < MaxRaf
  /\ dom[el].clientHeight # newHeight
  /\ dom' = [dom EXCEPT ![el].clientHeight = newHeight]
  /\ IF dom[el].observers > 0 /\ newHeight # containerHeight /\ newHeight > 0
     THEN /\ scrollTopRatio' = IF TotalHeightNow > 0
                               THEN Ratio(scrollTop, TotalHeightNow, newHeight)
                               ELSE scrollTopRatio
          /\ containerHeight' = newHeight
          /\ rafQueue' = Append(rafQueue, Raf("resize", NULL, 0))
          /\ notify
     ELSE UNCHANGED <<scrollTopRatio, containerHeight, rafQueue, notifyVars>>
  /\ hist' = Op("resize", el, Num(newHeight))
  /\ UNCHANGED <<indexVars, tmVars, managerVars, orderedIds, providerSubscribed,
                 now, scrollContainerElement, scrollTop, lastKnownScrollTop,
                 showScrollToTop, resizeObserver, scrollEventCleanup,
                 disposed, unsubscribeCalls, dataChanges, maximizationConfig, fn>>

(* the surface is resized; a connected ResizeObserver runs its callback *)
Resize(el, newHeight) ==
  /\ Len(rafQueue) < MaxRaf
  /\ dom[el].clientHeight # newHeight
  /\ dom' = [dom EXCEPT ![el].clientHeight = newHeight]
  /\ IF dom[el].observers > 0 /\ newHeight # containerHeight /\ newHeight > 0
     THEN /\ scrollTopRatio' = IF TotalHeightNow > 0
                               THEN Ratio(scrollTop, TotalHeightNow, containerHeight)
                               ELSE scrollTopRatio
          /\ containerHeight' = newHeight
          /\ rafQueue' = Append(rafQueue, Raf("resize", NULL, 0))
          /\ notify
     ELSE UNCHANGED <<scrollTopRatio, containerHeight, rafQueue, notifyVars>>
  /\ hist' = Op("resize", el, Num(newHeight))
  /\ UNCHANGED <<indexVars, tmVars, managerVars, orderedIds, providerSubscribed,
                 now, scrollContainerElement, scrollTop, lastKnownScrollTop,
                 showScrollToTop, resizeObserver, scrollEventCleanup,
                 disposed, unsubscribeCalls, dataChanges, maximizationConfig, fn>>

(* one pending requestAnimationFrame callback runs (in scheduling order);  *)
(* microtasks drain before the next callback starts                        *)
RunAnimationFrame ==
  /\ rafQueue # <<>>
  /\ microtasks = 0
  /\ LET cb == Head(rafQueue) IN
     /\ rafQueue' = Tail(rafQueue)
     /\ hist' = Op("raf", cb.id, [kind |-> cb.kind, live |-> cb.live])
     /\ CASE cb.kind = "measure" ->
               /\ measurements' = updateMeasurements(measurements, orderedIds,
                                                     cb.id, cb.itemTop, now)
               /\ notify
               /\ UNCHANGED <<dom, scrollVars>>
          [] cb.kind = "maximize" ->
               /\ Manager_scrollToItemById(cb.id)
               /\ UNCHANGED <<measurements, notifyVars, scrollVars>>
          [] cb.kind = "scroll" ->
               /\ IF scrollContainerElement = NULL
                  THEN UNCHANGED <<scrollTop, lastKnownScrollTop, showScrollToTop,
                                   scrollTopRatio, notifyVars>>
                  ELSE ScrollContainer_handleScroll(dom[scrollContainerElement].scrollTop,
                                                    TotalHeightNow)
               /\ UNCHANGED <<measurements, dom, scrollContainerElement,
                              containerHeight, resizeObserver, scrollEventCleanup>>
          [] cb.kind = "resize" ->
               /\ dom' = IF scrollContainerElement # NULL /\ scrollTopRatio[1] > 0
                         THEN SetDomScrollTop(dom, scrollContainerElement,
                                (scrollTopRatio[1]
                                   * Max(0, TotalHeightNow - containerHeight))
                                  \div scrollTopRatio[2])
                         ELSE dom
               /\ UNCHANGED <<measurements, notifyVars, scrollVars>>
  /\ UNCHANGED <<maximizedItemId, maximizedHeight, currentVersion, tmVars,
                 managerVars, orderedIds, providerSubscribed, now, disposed,
                 unsubscribeCalls, dataChanges, maximizationConfig, fn>>

---------------------------------------------------------------------------
(* Reconciler engine: core/VirtualizedListManager.ts with the              *)
(* TransitionManager of core/VirtualizationCalculator.ts                   *)

(* utils: set relations on id sets *)
setsEqual(a, b) == Cardinality(a) = Cardinality(b) /\ \A x \in a : x \in b
isSubset(subset, superset) == \A x \in subset : x \in superset
setIntersection(a, b) == {x \in a : x \in b}
setDifference(a, b) == {x \in a : x \notin b}

(* analyzeDataTransition without the equal-size test *)
analyzeDataTransition_noEqualSizeTest(oldIds, newIds) ==
  LET oldSize == Cardinality(oldIds)
      newSize == Cardinality(newIds) IN
  IF oldSize = newSize /\ setsEqual(oldIds, newIds) THEN "replace"
  ELSE IF newSize > oldSize /\ isSubset(oldIds, newIds) THEN "append"
  ELSE IF newSize < oldSize /\ isSubset(newIds, oldIds) THEN "filter"
  ELSE IF 2 * Cardinality(setIntersection(oldIds, newIds)) > Min(oldSize, newSize)
       THEN "reorder"
  ELSE "unknown"

(* analyzeDataTransition with an overlap of exactly half counted as reorder *)
analyzeDataTransition_halfIsReorder(oldIds, newIds) ==
  LET oldSize == Cardinality(oldIds)
      newSize == Cardinality(newIds) IN
  IF oldSize = newSize /\ setsEqual(oldIds, newIds) THEN "replace"
  ELSE IF newSize > oldSize /\ isSubset(oldIds, newIds) THEN "append"
  ELSE IF newSize < oldSize /\ isSubset(newIds, oldIds) THEN "filter"
  ELSE IF newSize = oldSize THEN "replace"
  ELSE IF 2 * Cardinality(setIntersection(oldIds, newIds)) >= Min(oldSize, newSize)
       THEN "reorder"
  ELSE "unknown"

(* TransitionManager.analyzeDataTransition, its tests in source order;     *)
(* intersection.size > Math.min(oldSize, newSize) * 0.5 is kept in integers *)
analyzeDataTransition(oldIds, newIds) ==
  LET oldSize == Cardinality(oldIds)
      newSize == Cardinality(newIds) IN
  IF oldSize = newSize /\ setsEqual(oldIds, newIds) THEN "replace"
  ELSE IF newSize > oldSize /\ isSubset(oldIds, newIds) THEN "append"
  ELSE IF newSize < oldSize /\ isSubset(newIds, oldIds) THEN "filter"
  ELSE IF newSize = oldSize THEN "replace"
  ELSE IF 2 * Cardinality(setIntersection(oldIds, newIds)) > Min(oldSize, newSize)
       THEN "reorder"
  ELSE "unknown"

(* an index entry of this engine: ItemMeasurement {height, top} *)
Slot(h, t) == [height |-> h, top |-> t]

(* the loop of VirtualizedListManager.updateMeasurements from position i *)
RECURSIVE VLM_Loop(_, _, _, _, _, _, _)
VLM_Loop(m, order, i, currentTop, maxId, maxH, cfg) ==
  IF i > Len(order) THEN m
  ELSE LET id == order[i]
           kept == IF id \in DOMAIN m /\ m[id].height # 0
                   THEN m[id].height ELSE DefaultItemHeight
           height == IF id = maxId /\ maxH > 0 /\ cfg.mode # "natural"
                     THEN maxH ELSE kept IN
       VLM_Loop(Put(m, id, Slot(height, currentTop)), order, i + 1,
                currentTop + height + (IF i < Len(order) THEN Gap ELSE 0),
                maxId, maxH, cfg)

(* VirtualizedListManager.updateMeasurements; no id of the model is a      *)
(* placeholder, so cleanupPlaceholderMeasurements removes nothing          *)
VLM_updateMeasurements(m, order, maxId, maxH, cfg) ==
  IF Len(order) = 0 THEN m ELSE VLM_Loop(m, order, 1, 0, maxId, maxH, cfg)

RECURSIVE SumHeights(_, _)
SumHeights(m, S) ==
  IF S = {} THEN 0
  ELSE LET x == CHOOSE y \in S : TRUE IN m[x].height + SumHeights(m, S \ {x})

(* VirtualizedListManager.getTotalHeight: every stored height counts *)
VLM_getTotalHeight(m, order) ==
  LET totalCount == Len(order)
      totalGaps == Max(0, totalCount - 1) * Gap IN
  IF DOMAIN m = {} THEN totalCount * DefaultItemHeight + totalGaps
  ELSE SumHeights(m, DOMAIN m)
         + (totalCount - Cardinality(DOMAIN m)) * DefaultItemHeight + totalGaps

(* Math.ceil(a / b) for b > 0 *)
CeilDiv(a, b) == 0 - ((0 - a) \div b)

(* the indices i of order whose entry meets [viewportTop, viewportBottom] *)
Intersecting(m, order, viewportTop, viewportBottom) ==
  {i \in 1..Len(order) :
     /\ order[i] \in DOMAIN m
     /\ m[order[i]].top + m[order[i]].height >= viewportTop
     /\ m[order[i]].top <= viewportBottom}

SetMin(S) == CHOOSE x \in S : \A y \in S : x <= y
SetMax(S) == CHOOSE x \in S : \A y \in S : x >= y

(* VirtualizedListManager.getViewportInfo: the 0-based index range; m is   *)
(* the index after the updateMeasurements() call it starts with; the       *)
(* manager's containerHeight field is never assigned and stays 0           *)
VLM_getViewportInfo(m, order, initialized, sTop) ==
  LET totalCount == Len(order)
      cHeight == 0
      overscanHeight == Overscan * DefaultItemHeight
      viewportTop == sTop - overscanHeight
      viewportBottom == sTop + cHeight + overscanHeight
      hit == Intersecting(m, order, viewportTop, viewportBottom)
      averageItemWithGap == DefaultItemHeight + Gap
      fallbackStart == Max(0, Min(viewportTop \div averageItemWithGap,
                                  totalCount - 1))
      fallbackEnd == Max(fallbackStart,
                         Min(CeilDiv(viewportBottom, averageItemWithGap),
                             totalCount - 1))
      startIndex == IF DOMAIN m = {} THEN 0
                    ELSE IF hit = {} THEN fallbackStart
                    ELSE SetMin(hit) - 1
      endIndex == IF DOMAIN m = {} THEN totalCount - 1
                  ELSE IF hit = {} THEN fallbackEnd
                  ELSE SetMax(hit) - 1 IN
  IF ~initialized \/ totalCount = 0
  THEN [startIndex |-> 0, endIndex |-> Min(totalCount - 1, 10),
        totalCount |-> totalCount]
  ELSE [startIndex |-> Max(0, startIndex),
        endIndex |-> Min(totalCount - 1, endIndex), totalCount |-> totalCount]

(* VirtualizedListManager.getVisibleItems of the reconciler engine *)
VLM_getVisibleItems(m, order, maxId, initialized, sTop) ==
  LET r == VLM_getViewportInfo(m, order, initialized, sTop) IN
  IF r.startIndex > r.endIndex \/ r.startIndex >= r.totalCount THEN <<>>
  ELSE [k \in 1..(Min(r.endIndex, r.totalCount - 1) - r.startIndex + 1) |->
          LET id == order[r.startIndex + k] IN
          [id |-> id,
           measurement |-> IF id \in DOMAIN m THEN m[id] ELSE Undefined,
           isMaximized |-> (id = maxId)]]

(* a MeasurementEntry of VirtualizationCalculator *)
MeasurementEntry(itemIndex, top, height) ==
  [itemIndex |-> itemIndex, top |-> top, height |-> height]

(* the while loop of binarySearchByPosition; index[k + 1] is                *)
(* measurementIndex[k]                                                      *)
RECURSIVE SearchLoop(_, _, _, _, _, _)
SearchLoop(index, targetPosition, type, left, right, result) ==
  IF left > right THEN result
  ELSE LET mid == (left + right) \div 2
           entry == index[mid + 1]
           itemBottom == entry.top + entry.height IN
       IF type = "start"
       THEN IF itemBottom > targetPosition
            THEN SearchLoop(index, targetPosition, type, left, mid - 1,
                            entry.itemIndex)
            ELSE SearchLoop(index, targetPosition, type, mid + 1, right, result)
       ELSE IF entry.top < targetPosition
            THEN SearchLoop(index, targetPosition, type, mid + 1, right,
                            entry.itemIndex)
            ELSE SearchLoop(index, targetPosition, type, left, mid - 1, result)

(* VirtualizationCalculator.binarySearchByPosition *)
binarySearchByPosition(index, totalItems, targetPosition, type) ==
  IF Len(index) = 0 THEN targetPosition \div DefaultItemHeight
  ELSE SearchLoop(index, targetPosition, type, 0, Len(index) - 1,
                  IF type = "start" THEN totalItems ELSE 0)

(* VirtualizationCalculator.calculateViewportRange *)
calculateViewportRange(index, totalItems, sTop, cHeight, overscan) ==
  LET overscanHeight == overscan * DefaultItemHeight
      viewportTop == sTop - overscanHeight
      viewportBottom == sTop + cHeight + overscanHeight IN
  IF Len(index) = 0
  THEN [startIndex |-> Max(0, viewportTop \div DefaultItemHeight),
        endIndex |-> Min(totalItems - 1,
                         CeilDiv(viewportBottom, DefaultItemHeight))]
  ELSE [startIndex |->
          Max(0, binarySearchByPosition(index, totalItems, viewportTop, "start")),
        endIndex |->
          Min(totalItems - 1,
              binarySearchByPosition(index, totalItems, viewportBottom, "end"))]

(* VirtualizedListManager.calculateMaximizedHeight; the manager's own      *)
(* containerHeight field is never assigned and stays 0                     *)
VLM_calculateMaximizedHeight(cfg, customHeight) ==
  LET cHeight == 0 IN
  IF customHeight # NULL THEN customHeight
  ELSE IF cfg.mode = "natural" THEN 0
  ELSE IF cfg.mode = "custom"
       THEN (IF cfg.maxHeight # NULL THEN cfg.maxHeight ELSE (cHeight * 80) \div 100)
  ELSE LET percentage == IF cfg.containerPercentage # NULL
                         THEN cfg.containerPercentage
                         ELSE DefaultContainerPercentage
           h == (cHeight * percentage) \div 100
           capped == IF h > cHeight - cfg.neighborSpace
                     THEN cHeight - cfg.neighborSpace ELSE h IN
       Max(capped, MinMaximizedHeight)

(* VirtualizedListManager.cleanupRemovedItems *)
cleanupRemovedItems(m, oldIds, newIds) ==
  Restrict(m, (DOMAIN m) \ setDifference(oldIds, newIds))

(* a ScrollContext {type, scrollRatio?, itemId?} *)
ScrollContext(type, scrollRatio, itemId) ==
  [type |-> type, scrollRatio |-> scrollRatio, itemId |-> itemId]

(* Math.min(ratio, 0.5) on a fraction <<num, den>> *)
CapRatio(r) == IF 2 * r[1] > r[2] THEN <<1, 2>> ELSE r

(* the transition handlers: whether removed entries are dropped, whether   *)
(* the maximization is cleared, and the pending scroll context they choose *)
Outcome(cleanup, clear, ctx) == [cleanup |-> cleanup, clear |-> clear, ctx |-> ctx]

(* handleAppendTransition with a ratio of 0 instead of the current one *)
handleAppendTransition_resetsRatio(ratio) ==
  Outcome(FALSE, FALSE, ScrollContext("ratio", <<0, 1>>, NULL))

handleAppendTransition(ratio) ==
  Outcome(FALSE, FALSE, ScrollContext("ratio", ratio, NULL))

(* handleFilterTransition with the ratio passed on as it is *)
handleFilterTransition_uncapped(maxId, newIds, newCount, ratio) ==
  IF maxId # NULL /\ maxId \notin newIds
  THEN Outcome(TRUE, TRUE, ScrollContext("top", NULL, NULL))
  ELSE IF maxId # NULL
  THEN Outcome(TRUE, FALSE, ScrollContext("item", NULL, maxId))
  ELSE IF newCount = 0 \/ newCount < SmallFilteredCount
  THEN Outcome(TRUE, FALSE, ScrollContext("top", NULL, NULL))
  ELSE Outcome(TRUE, FALSE, ScrollContext("ratio", ratio, NULL))

(* handleFilterTransition without its first branch *)
handleFilterTransition_keepsMaximized(maxId, newIds, newCount, ratio) ==
  IF maxId # NULL
  THEN Outcome(TRUE, FALSE, ScrollContext("item", NULL, maxId))
  ELSE IF newCount = 0 \/ newCount < SmallFilteredCount
  THEN Outcome(TRUE, FALSE, ScrollContext("top", NULL, NULL))
  ELSE Outcome(TRUE, FALSE, ScrollContext("ratio", CapRatio(ratio), NULL))

handleFilterTransition(maxId, newIds, newCount, ratio) ==
  IF maxId # NULL /\ maxId \notin newIds
  THEN Outcome(TRUE, TRUE, ScrollContext("top", NULL, NULL))
  ELSE IF maxId # NULL
  THEN Outcome(TRUE, FALSE, ScrollContext("item", NULL, maxId))
  ELSE IF newCount = 0 \/ newCount < SmallFilteredCount
  THEN Outcome(TRUE, FALSE, ScrollContext("top", NULL, NULL))
  ELSE Outcome(TRUE, FALSE, ScrollContext("ratio", CapRatio(ratio), NULL))

(* handleReplaceTransition resetting to top when the maximized id is gone *)
handleReplaceTransition_resetsToTop(maxId, newIds, ratio) ==
  IF maxId # NULL /\ maxId \in newIds
  THEN Outcome(TRUE, FALSE, ScrollContext("item", NULL, maxId))
  ELSE IF maxId # NULL
  THEN Outcome(TRUE, TRUE, ScrollContext("top", NULL, NULL))
  ELSE Outcome(TRUE, FALSE, ScrollContext("ratio", ratio, NULL))

handleReplaceTransition(maxId, newIds, ratio) ==
  IF maxId # NULL /\ maxId \in newIds
  THEN Outcome(TRUE, FALSE, ScrollContext("item", NULL, maxId))
  ELSE IF maxId # NULL
  THEN Outcome(TRUE, TRUE, ScrollContext("ratio", ratio, NULL))
  ELSE Outcome(TRUE, FALSE, ScrollContext("ratio", ratio, NULL))

(* handleReorderTransition without clearMaximization *)
handleReorderTransition_noClear(maxId, newIds) ==
  IF maxId # NULL /\ maxId \in newIds
  THEN Outcome(TRUE, FALSE, ScrollContext("item", NULL, maxId))
  ELSE Outcome(TRUE, FALSE, ScrollContext("top", NULL, NULL))

handleReorderTransition(maxId, newIds) ==
  IF maxId # NULL /\ maxId \in newIds
  THEN Outcome(TRUE, FALSE, ScrollContext("item", NULL, maxId))
  ELSE IF maxId # NULL
  THEN Outcome(TRUE, TRUE, ScrollContext("top", NULL, NULL))
  ELSE Outcome(TRUE, FALSE, ScrollContext("top", NULL, NULL))

(* handleUnknownTransition clearing the maximization in every case *)
handleUnknownTransition_alwaysClears(maxId, newIds) ==
  Outcome(TRUE, TRUE, ScrollContext("top", NULL, NULL))

handleUnknownTransition(maxId, newIds) ==
  Outcome(TRUE, maxId # NULL /\ maxId \notin newIds,
          ScrollContext("top", NULL, NULL))

(* the switch of handleDataChange *)
TransitionOutcome(type, maxId, newIds, newCount, ratio) ==
  CASE type = "append" -> handleAppendTransition(ratio)
    [] type = "filter" -> handleFilterTransition(maxId, newIds, newCount, ratio)
    [] type = "replace" -> handleReplaceTransition(maxId, newIds, ratio)
    [] type = "reorder" -> handleReorderTransition(maxId, newIds)
    [] OTHER -> handleUnknownTransition(maxId, newIds)

VLM_TotalHeightNow == VLM_getTotalHeight(measurements, orderedIds)

(* the deferred recovery of applyPendingScrollContext with its captured    *)
(* context; seq records (history) the dataset change that chose it         *)
RafRecovery(ctx, seq) ==
  [kind |-> "recovery", id |-> ctx.itemId, itemTop |-> 0, live |-> ~disposed,
   ctx |-> ctx, seq |-> seq]

(* VirtualizedListManager.scrollToItemById on the host surface *)
VLM_scrollToItemById(itemId) ==
  LET has == itemId \in DOMAIN measurements
      t == ScrollTarget(itemId, itemId = maximizedItemId, has,
                        IF has THEN measurements[itemId] ELSE Slot(0, 0),
                        VLM_TotalHeightNow) IN
  dom' = IF t.issue THEN SetDomScrollTop(dom, scrollContainerElement, t.top)
         ELSE dom

(* VirtualizedListManager.measureItem(id, index, height) *)
VLM_measureItem(id, height) ==
  LET hasChanged == height > 0
                      /\ (id \notin DOMAIN measurements
                          \/ Abs(measurements[id].height - height) > 1) IN
  /\ hasChanged => Len(rafQueue) < MaxRaf
  /\ measurements' =
       IF hasChanged
       THEN VLM_updateMeasurements(Put(measurements, id, Slot(height, 0)),
                                   orderedIds, maximizedItemId, maximizedHeight,
                                   maximizationConfig)
       ELSE measurements
  /\ rafQueue' = IF hasChanged THEN Append(rafQueue, Raf("vlmMeasure", id, 0))
                 ELSE rafQueue
  /\ lastMeasured' = IF height > 0 /\ id # maximizedItemId
                     THEN [lastMeasured EXCEPT ![id] = height]
                     ELSE lastMeasured
  /\ hist' = Op("measureItem", id, Num(height))
  /\ UNCHANGED <<maximizedItemId, maximizedHeight, currentVersion, scrollVars,
                 managerVars, envVars, lastDataSnapshot, pendingScrollContext,
                 rebuiltFor, notifyVars, disposed, unsubscribeCalls,
                 dataChanges, maximizationConfig, fn>>

(* VirtualizedListManager.toggleMaximize *)
VLM_toggleMaximize(itemId, customMaximizedHeight) ==
  LET newMax == ToggledId(maximizedItemId, itemId)
      newHeight == IF maximizedItemId = itemId THEN 0
                   ELSE VLM_calculateMaximizedHeight(maximizationConfig,
                                                     customMaximizedHeight) IN
  /\ maximizedItemId # itemId => Len(rafQueue) < MaxRaf
  /\ maximizedItemId' = newMax
  /\ maximizedHeight' = newHeight
  /\ rafQueue' = IF maximizedItemId = itemId THEN rafQueue
                 ELSE Append(rafQueue, Raf("vlmMaximize", itemId, 0))
  /\ measurements' = VLM_updateMeasurements(measurements, orderedIds, newMax,
                                            newHeight, maximizationConfig)
  /\ notify
  /\ hist' = Op("toggleMaximize", itemId, Num(customMaximizedHeight))
  /\ UNCHANGED <<currentVersion, scrollVars, managerVars, envVars, tmVars,
                 disposed, unsubscribeCalls, dataChanges, maximizationConfig, fn>>

(* the statement `this.updateMeasurements()` of handleDataChange: the index *)
(* is rebuilt for the order of dataset change seq                          *)
updateMeasurementsForChange_skipped(m, order, maxId, maxH, seq) ==
  /\ measurements' = m
  /\ rebuiltFor' = rebuiltFor

updateMeasurementsForChange(m, order, maxId, maxH, seq) ==
  /\ measurements' = VLM_updateMeasurements(m, order, maxId, maxH,
                                            maximizationConfig)
  /\ rebuiltFor' = seq

(* TransitionManager.applyPendingScrollContext after a handler chose ctx *)
applyPendingScrollContext(ctx, seq) ==
  IF scrollContainerElement = NULL
  THEN /\ pendingScrollContext' = ctx
       /\ rafQueue' = rafQueue
  ELSE /\ pendingScrollContext' = NULL
       /\ rafQueue' = Append(rafQueue, RafRecovery(ctx, seq))

(* the data source publishes newOrder; its subscriber runs                 *)
(* TransitionManager.handleDataChange on the new snapshot                  *)
VLM_DataChange(newOrder) ==
  LET oldIds == lastDataSnapshot
      newIds == SeqToSet(newOrder)
      type == analyzeDataTransition(oldIds, newIds)
      out == TransitionOutcome(type, maximizedItemId, newIds, Len(newOrder),
                               scrollTopRatio)
      m1 == IF out.cleanup THEN cleanupRemovedItems(measurements, oldIds, newIds)
            ELSE measurements
      maxId1 == IF out.clear THEN NULL ELSE maximizedItemId
      maxH1 == IF out.clear THEN 0 ELSE maximizedHeight IN
  /\ dataChanges < MaxChanges
  /\ scrollContainerElement # NULL => Len(rafQueue) < MaxRaf
  /\ providerSubscribed > 0
  /\ orderedIds' = newOrder
  /\ dataChanges' = dataChanges + 1
  /\ maximizedItemId' = maxId1
  /\ maximizedHeight' = maxH1
  /\ lastDataSnapshot' = newIds
  /\ updateMeasurementsForChange(m1, newOrder, maxId1, maxH1, dataChanges + 1)
  /\ applyPendingScrollContext(out.ctx, dataChanges + 1)
  /\ notify
  /\ hist' = Op("handleDataChange", maximizedItemId,
                [type |-> type, newIds |-> newIds])
  /\ UNCHANGED <<currentVersion, scrollVars, managerVars, providerSubscribed,
                 now, dom, lastMeasured, disposed, unsubscribeCalls,
                 maximizationConfig, fn>>

(* the browser runs the oldest pending callback of the reconciler engine *)
VLM_RunAnimationFrame ==
  /\ rafQueue # <<>>
  /\ microtasks = 0
  /\ LET cb == Head(rafQueue) IN
     /\ rafQueue' = Tail(rafQueue)
     /\ hist' = Op("raf", cb.id,
                   [kind |-> cb.kind, live |-> cb.live,
                    seq |-> IF cb.kind = "recovery" THEN cb.seq ELSE 0,
                    type |-> IF cb.kind = "recovery" THEN cb.ctx.type ELSE "none"])
     /\ CASE cb.kind = "vlmMeasure" ->
               /\ measurements' = VLM_updateMeasurements(measurements, orderedIds,
                                    maximizedItemId, maximizedHeight,
                                    maximizationConfig)
               /\ notify
               /\ UNCHANGED <<dom, scrollVars>>
          [] cb.kind = "vlmMaximize" ->
               /\ VLM_scrollToItemById(cb.id)
               /\ UNCHANGED <<measurements, notifyVars, scrollVars>>
          [] cb.kind = "recovery" ->
               /\ IF scrollContainerElement = NULL THEN dom' = dom
                  ELSE CASE cb.ctx.type = "top" ->
                              dom' = SetDomScrollTop(dom, scrollContainerElement, 0)
                         [] cb.ctx.type = "ratio" ->
                              dom' = SetDomScrollTop(dom, scrollContainerElement,
                                       (cb.ctx.scrollRatio[1]
                                          * Max(0, VLM_TotalHeightNow - 0))
                                         \div cb.ctx.scrollRatio[2])
                         [] cb.ctx.type = "item" ->
                              VLM_scrollToItemById(cb.ctx.itemId)
               /\ UNCHANGED <<measurements, notifyVars, scrollVars>>
          [] cb.kind = "scroll" ->
               /\ IF scrollContainerElement = NULL
                  THEN UNCHANGED <<scrollTop, lastKnownScrollTop, showScrollToTop,
                                   scrollTopRatio, notifyVars>>
                  ELSE ScrollContainer_handleScroll(dom[scrollContainerElement].scrollTop,
                                                    VLM_TotalHeightNow)
               /\ UNCHANGED <<measurements, dom, scrollContainerElement,
                              containerHeight, resizeObserver, scrollEventCleanup>>
  /\ UNCHANGED <<maximizedItemId, maximizedHeight, currentVersion, tmVars,
                 managerVars, orderedIds, providerSubscribed, now, disposed,
                 unsubscribeCalls, dataChanges, maximizationConfig, fn>>

(* the fields after construction, on a page with the surfaces `surfaces` *)
InitIdleOn(surfaces) ==
  /\ measurements = << >>
  /\ maximizedItemId = NULL
  /\ maximizedHeight = 0
  /\ currentVersion = 0
  /\ now = 0
  /\ rafQueue = <<>>
  /\ notifyScheduled = FALSE
  /\ microtasks = 0
  /\ invoked = [s \in SubscriberIds |-> 0]
  /\ requests = 0
  /\ subscribers = <<>>
  /\ isInitialized = FALSE
  /\ scrollContainerElement = NULL
  /\ containerHeight = 0
  /\ scrollTop = 0
  /\ lastKnownScrollTop = 0
  /\ scrollTopRatio = <<0, 1>>
  /\ showScrollToTop = FALSE
  /\ resizeObserver = FALSE
  /\ scrollEventCleanup = NULL
  /\ dom = [e \in surfaces |-> [scrollTop |-> 0, clientHeight |-> 500,
                                listeners |-> 0, observers |-> 0]]
  /\ lastDataSnapshot = {}
  /\ pendingScrollContext = NULL
  /\ rebuiltFor = 0
  /\ lastMeasured = [id \in Ids |-> NULL]
  /\ hist = Op("new", NULL, Num(NULL))
  /\ disposed = FALSE
  /\ unsubscribeCalls = 0
  /\ dataChanges = 0

InitIdle == InitIdleOn(Elements)

(* state after `new VirtualizedListManager(dataProvider, config)` with the *)
(* default configuration and a data source that already holds two items    *)
Init ==
  /\ InitIdle
  /\ orderedIds = <<1, 2>>
  /\ maximizationConfig = FixedConfig
  /\ dataUnsubscribe = TRUE
  /\ providerSubscribed = 1
  /\ fn = [oldIds |-> {}, newIds |-> {}, result |-> "none"]

(* Spec: the position index, the maximize controller and their deferred    *)
(* work; no scroll surface is attached                                     *)
Next ==
  \/ \E id \in Ids, h \in ReportedHeights : measureItem(id, h)
  \/ \E id \in Ids, c \in CustomHeights : toggleMaximize(id, c)
  \/ \E o \in Orders(Ids) : DataChange(o)
  \/ RunAnimationFrame
  \/ RunMicrotask

Spec == Init /\ [][Next]_vars

(* SpecDispose: the index engine with disposal *)
NextDispose ==
  \/ \E id \in Ids, h \in LifecycleHeights : measureItem(id, h)
  \/ \E id \in Ids : toggleMaximize(id, NULL)
  \/ \E o \in Orders(Ids) : DataChange(o)
  \/ dispose
  \/ RunAnimationFrame
  \/ RunMicrotask

SpecDispose == Init /\ [][NextDispose]_vars

(* SpecScroll: the scroll adapter and the lifecycle of the facade, over the *)
(* initial ordered set                                                     *)
NextScroll ==
  \/ \E el \in Elements : setScrollContainer(el)
  \/ \E s \in ScrollOffsets : handleScroll(s)
  \/ scrollToTop
  \/ dispose
  \/ \E s \in ScrollSubscribers : subscribe(s)
  \/ \E el \in Elements, s \in ScrollOffsets : UserScroll(el, s)
  \/ \E el \in Elements, h \in ClientHeights : Resize(el, h)
  \/ \E id \in Ids : toggleMaximize(id, NULL)
  \/ RunAnimationFrame
  \/ RunMicrotask

SpecScroll == Init /\ [][NextScroll]_vars

(* SpecTM: the reconciler engine: measuring, maximizing, dataset changes   *)
(* and their deferred work, with a scroll surface that may be attached     *)
NextTM ==
  \/ \E id \in Ids, h \in ReconcilerHeights : VLM_measureItem(id, h)
  \/ \E id \in Ids : VLM_toggleMaximize(id, NULL)
  \/ \E o \in Orders(Ids) : VLM_DataChange(o)
  \/ \E el \in Elements : setScrollContainer(el)
  \/ VLM_RunAnimationFrame
  \/ RunMicrotask

SpecTM == Init /\ [][NextTM]_vars

(* SpecRebuild: the index engine over several rebuilds with a clock that   *)
(* advances                                                                 *)
RebuildHeights == {-5, 0, 50}

NextRebuild ==
  \/ \E id \in Ids, h \in RebuildHeights : measureItem(id, h)
  \/ \E o \in Orders(Ids) : DataChangeWithin(o, MaxRebuilds)
  \/ Tick
  \/ RunAnimationFrame
  \/ RunMicrotask

SpecRebuild == Init /\ [][NextRebuild]_vars

(* SpecLookup: the index engine with one dataset change and an attached   *)
(* scroll surface, so that scroll-to-item runs while stale entries exist    *)
LookupHeights == {50}
LookupOrders == {<<1>>, <<1, 2>>, <<2, 1>>}

NextLookup ==
  \/ \E id \in Ids, h \in LookupHeights : measureItem(id, h)
  \/ \E id \in Ids : toggleMaximize(id, NULL)
  \/ \E o \in LookupOrders : DataChange(o)
  \/ \E el \in Elements : setScrollContainer(el)
  \/ RunAnimationFrame
  \/ RunMicrotask

SpecLookup == Init /\ [][NextLookup]_vars

(* SpecClassify: analyzeDataTransition applied to every pair of id sets *)
ClassifyIds == 1..MaxClassifyId

InitClassify ==
  /\ InitIdle
  /\ orderedIds = <<>>
  /\ maximizationConfig = FixedConfig
  /\ dataUnsubscribe = TRUE
  /\ providerSubscribed = 1
  /\ fn \in [oldIds : SUBSET ClassifyIds, newIds : SUBSET ClassifyIds,
             result : {"none"}]

Classify ==
  /\ fn.result = "none"
  /\ fn' = [fn EXCEPT !.result = analyzeDataTransition(fn.oldIds, fn.newIds)]
  /\ hist' = Op("analyzeDataTransition", NULL, Num(NULL))
  /\ UNCHANGED <<indexVars, scrollVars, managerVars, tmVars, envVars, rafQueue,
                 notifyVars, disposed, unsubscribeCalls, dataChanges,
                 maximizationConfig>>

NextClassify == Classify

SpecClassify == InitClassify /\ [][NextClassify]_vars

(* SpecVisible: getSnapshot().visibleItems for the layouts a rebuild       *)
(* leaves, at scroll offsets that put items inside, outside and on the     *)
(* edges of the widened window                                             *)
VisibleIds == 1..MaxVisibleId
TallHeight == 900
VisibleOffsets == {0, 110, 400, 1400, 2000}
VisibleContainerHeights == {300, 1000}

(* the index after the ids in measured reported TallHeight and the data    *)
(* source then published order                                             *)
LayoutOf(order, measured) ==
  buildMeasurements([id \in measured |-> Entry(TallHeight, 0, 0, 0)],
                    order, 1, 0)

InitVisible ==
  /\ InitIdle
  /\ orderedIds = <<>>
  /\ maximizationConfig = FixedConfig
  /\ dataUnsubscribe = TRUE
  /\ providerSubscribed = 1
  /\ fn \in [order : Orders(VisibleIds), measured : SUBSET VisibleIds,
              scrollTop : VisibleOffsets, containerHeight : VisibleContainerHeights,
              maximizedItemId : {NULL} \cup VisibleIds,
              done : {FALSE}, visibleItems : {<<>>},
              vlmDone : {FALSE}, vlmVisibleItems : {<<>>}]

getSnapshot ==
  /\ ~fn.done
  /\ fn' = [fn EXCEPT !.done = TRUE,
                      !.visibleItems =
                         getVisibleItems(LayoutOf(fn.order, fn.measured),
                                         fn.order, 1, fn.maximizedItemId,
                                         fn.scrollTop, fn.containerHeight,
                                         SeqToSet(fn.order))]
  /\ hist' = Op("getSnapshot", NULL, Num(NULL))
  /\ UNCHANGED <<indexVars, scrollVars, managerVars, tmVars, envVars, rafQueue,
                 notifyVars, disposed, unsubscribeCalls, dataChanges,
                 maximizationConfig>>

(* the index of the reconciler engine for the same history *)
VLM_LayoutOf(order, measured, maxId) ==
  VLM_updateMeasurements([id \in measured |-> Slot(TallHeight, 0)], order, maxId,
                         IF maxId = NULL THEN 0
                         ELSE VLM_calculateMaximizedHeight(FixedConfig, NULL),
                         FixedConfig)

VLM_getSnapshot ==
  /\ ~fn.vlmDone
  /\ fn' = [fn EXCEPT !.vlmDone = TRUE,
                      !.vlmVisibleItems =
                         VLM_getVisibleItems(
                           VLM_LayoutOf(fn.order, fn.measured, fn.maximizedItemId),
                           fn.order, fn.maximizedItemId, TRUE, fn.scrollTop)]
  /\ hist' = Op("getSnapshot", NULL, Num(NULL))
  /\ UNCHANGED <<indexVars, scrollVars, managerVars, tmVars, envVars, rafQueue,
                 notifyVars, disposed, unsubscribeCalls, dataChanges,
                 maximizationConfig>>

NextVisible ==
  \/ getSnapshot
  \/ VLM_getSnapshot

SpecVisible == InitVisible /\ [][NextVisible]_vars

(* SpecItems: getSnapshot().visibleItems of the facade over a data source  *)
(* whose getItemById resolves only the ids in fn.items, so that the order  *)
(* and the position index name ids the source no longer holds              *)
ItemsOffsets == {0, 1400}
ItemsContainerHeight == 300

InitItems ==
  /\ InitIdle
  /\ orderedIds = <<>>
  /\ maximizationConfig = FixedConfig
  /\ dataUnsubscribe = TRUE
  /\ providerSubscribed = 1
  /\ fn \in [order : Orders(VisibleIds), measured : SUBSET VisibleIds,
              items : SUBSET VisibleIds, scrollTop : ItemsOffsets,
              done : {FALSE}, visibleItems : {<<>>}]

getSnapshotOver ==
  /\ ~fn.done
  /\ fn' = [fn EXCEPT !.done = TRUE,
                      !.visibleItems =
                         getVisibleItems(LayoutOf(fn.order, fn.measured),
                                         fn.order, 1, NULL, fn.scrollTop,
                                         ItemsContainerHeight, fn.items)]
  /\ hist' = Op("getSnapshot", NULL, Num(NULL))
  /\ UNCHANGED <<indexVars, scrollVars, managerVars, tmVars, envVars, rafQueue,
                 notifyVars, disposed, unsubscribeCalls, dataChanges,
                 maximizationConfig>>

NextItems == getSnapshotOver

SpecItems == InitItems /\ [][NextItems]_vars

(* SpecMaximized: calculateMaximizedHeight of both engines for every mode, *)
(* with and without an explicit height; percentages are in percent and     *)
(* every product below is a whole number                                   *)
MaximizedModes == {"fixed", "percentage", "custom", "natural"}
MaximizedMaxHeights == {NULL, 400}
MaximizedPercentages == {70, 95}
MaximizedNeighborSpaces == {0, 100, 120}
MaximizedCustomHeights == {NULL, 300}
MaximizedContainerHeights == {200, 800, 1000}

InitMaximized ==
  /\ InitIdle
  /\ orderedIds = <<>>
  /\ maximizationConfig = FixedConfig
  /\ dataUnsubscribe = TRUE
  /\ providerSubscribed = 1
  /\ fn \in [cfg : [mode : MaximizedModes, maxHeight : MaximizedMaxHeights,
                     containerPercentage : MaximizedPercentages,
                     neighborSpace : MaximizedNeighborSpaces],
              customHeight : MaximizedCustomHeights,
              containerHeight : MaximizedContainerHeights,
              done : {FALSE}, height : {0}, vlmDone : {FALSE}, vlmHeight : {0}]

(* Measurements.calculateMaximizedHeight, the container height read from   *)
(* the scroll container                                                    *)
CalculateHeight ==
  /\ ~fn.done
  /\ fn' = [fn EXCEPT !.done = TRUE,
                      !.height = calculateMaximizedHeight(fn.cfg, fn.customHeight,
                                                          fn.containerHeight)]
  /\ hist' = Op("calculateMaximizedHeight", NULL, Num(NULL))
  /\ UNCHANGED <<indexVars, scrollVars, managerVars, tmVars, envVars, rafQueue,
                 notifyVars, disposed, unsubscribeCalls, dataChanges,
                 maximizationConfig>>

(* VirtualizedListManager.calculateMaximizedHeight of the reconciler *)
VLM_CalculateHeight ==
  /\ ~fn.vlmDone
  /\ fn' = [fn EXCEPT !.vlmDone = TRUE,
                      !.vlmHeight = VLM_calculateMaximizedHeight(fn.cfg,
                                                                 fn.customHeight)]
  /\ hist' = Op("calculateMaximizedHeight", NULL, Num(NULL))
  /\ UNCHANGED <<indexVars, scrollVars, managerVars, tmVars, envVars, rafQueue,
                 notifyVars, disposed, unsubscribeCalls, dataChanges,
                 maximizationConfig>>

NextMaximized ==
  \/ CalculateHeight
  \/ VLM_CalculateHeight

SpecMaximized == InitMaximized /\ [][NextMaximized]_vars

(* SpecHandlers: handleDataChange applied to one pair of snapshots, with   *)
(* an item maximized or not and the list scrolled to above or below its    *)
(* middle; the id sets include lists long enough for every class of        *)
(* transition and for the 20-item threshold of the filter handler          *)
HandlerIdSets == {1..LongCount, 1..(LongCount - 4), 2..(LongCount + 1),
                  2..(LongCount + 2), {2, 30, 31}, {1, 2}, {}}
HandlerMaximized == {NULL, 1, 2}
HandlerRatios == {<<0, 1>>, <<1, 4>>, <<3, 4>>}
NoContext == ScrollContext("none", NULL, NULL)

InitHandlers ==
  /\ InitIdle
  /\ orderedIds = <<>>
  /\ maximizationConfig = FixedConfig
  /\ dataUnsubscribe = TRUE
  /\ providerSubscribed = 1
  /\ fn \in [oldIds : HandlerIdSets, newIds : HandlerIdSets,
              maximizedItemId : HandlerMaximized, scrollTopRatio : HandlerRatios,
              done : {FALSE}, type : {"none"}, maximizedAfter : {NULL},
              context : {NoContext}, pruned : {{}}]

(* TransitionManager.handleDataChange up to the choice of the pending      *)
(* scroll context: classification, handler, clearMaximization              *)
handleDataChange ==
  LET type == analyzeDataTransition(fn.oldIds, fn.newIds)
      out == TransitionOutcome(type, fn.maximizedItemId, fn.newIds,
                               Cardinality(fn.newIds), fn.scrollTopRatio) IN
  /\ ~fn.done
  /\ fn' = [fn EXCEPT !.done = TRUE,
                      !.type = type,
                      !.maximizedAfter = IF out.clear THEN NULL
                                         ELSE fn.maximizedItemId,
                      !.context = out.ctx,
                      !.pruned = IF out.cleanup
                                 THEN setDifference(fn.oldIds, fn.newIds)
                                 ELSE {}]
  /\ hist' = Op("handleDataChange", fn.maximizedItemId,
                [type |-> type, newIds |-> fn.newIds])
  /\ UNCHANGED <<indexVars, scrollVars, managerVars, tmVars, envVars, rafQueue,
                 notifyVars, disposed, unsubscribeCalls, dataChanges,
                 maximizationConfig>>

NextHandlers == handleDataChange

SpecHandlers == InitHandlers /\ [][NextHandlers]_vars

(* SpecViewport: the visible range of a list of MaxItems items of the      *)
(* default height laid out without gap, by the binary-search calculator,   *)
(* by its estimate for an empty index and by the walk of getViewportInfo   *)
ViewportOffsets == {250 * k : k \in 0..39}
ViewportContainerHeights == {400, 800}
NoRange == [startIndex |-> 0 - 1, endIndex |-> 0 - 1]

(* measurementIndex after every item reported the default height *)
UniformIndex ==
  [k \in 1..MaxItems |->
     MeasurementEntry(k - 1, (k - 1) * DefaultItemHeight, DefaultItemHeight)]

(* the manager's index for the same list, as updateMeasurements leaves it  *)
(* with gap 0                                                              *)
UniformSlots ==
  [id \in 1..MaxItems |-> Slot(DefaultItemHeight, (id - 1) * DefaultItemHeight)]

UniformOrder == [k \in 1..MaxItems |-> k]

InitViewport ==
  /\ InitIdle
  /\ orderedIds = <<>>
  /\ maximizationConfig = FixedConfig
  /\ dataUnsubscribe = TRUE
  /\ providerSubscribed = 1
  /\ fn \in [scrollTop : ViewportOffsets,
              containerHeight : ViewportContainerHeights,
              search : {NoRange}, estimate : {NoRange}, walk : {NoRange}]

CalculateMeasured ==
  /\ fn.search = NoRange
  /\ fn' = [fn EXCEPT !.search =
               calculateViewportRange(UniformIndex, MaxItems, fn.scrollTop,
                                      fn.containerHeight, Overscan)]
  /\ hist' = Op("calculateViewportRange", NULL, Num(MaxItems))
  /\ UNCHANGED <<indexVars, scrollVars, managerVars, tmVars, envVars, rafQueue,
                 notifyVars, disposed, unsubscribeCalls, dataChanges,
                 maximizationConfig>>

CalculateUnmeasured ==
  /\ fn.estimate = NoRange
  /\ fn' = [fn EXCEPT !.estimate =
               calculateViewportRange(<<>>, MaxItems, fn.scrollTop,
                                      fn.containerHeight, Overscan)]
  /\ hist' = Op("calculateViewportRange", NULL, Num(0))
  /\ UNCHANGED <<indexVars, scrollVars, managerVars, tmVars, envVars, rafQueue,
                 notifyVars, disposed, unsubscribeCalls, dataChanges,
                 maximizationConfig>>

WalkMeasurements ==
  /\ fn.walk = NoRange
  /\ fn' = [fn EXCEPT !.walk =
               LET r == VLM_getViewportInfo(UniformSlots, UniformOrder, TRUE,
                                            fn.scrollTop) IN
               [startIndex |-> r.startIndex, endIndex |-> r.endIndex]]
  /\ hist' = Op("getViewportInfo", NULL, Num(MaxItems))
  /\ UNCHANGED <<indexVars, scrollVars, managerVars, tmVars, envVars, rafQueue,
                 notifyVars, disposed, unsubscribeCalls, dataChanges,
                 maximizationConfig>>

NextViewport ==
  \/ CalculateMeasured
  \/ CalculateUnmeasured
  \/ WalkMeasurements

SpecViewport == InitViewport /\ [][NextViewport]_vars

(* SpecNotify: notify-triggering mutations, their deferred work and the    *)
(* notification microtask, with subscribers that may throw; the host runs  *)
(* a queued microtask before anything else can starve it                   *)
NextNotify ==
  \/ \E s \in SubscriberIds : subscribe(s)
  \/ \E id \in Ids : toggleMaximize(id, NULL)
  \/ \E id \in Ids, h \in LifecycleHeights : measureItem(id, h)
  \/ RunAnimationFrame
  \/ \E t \in SUBSET SubscriberIds : NotifyMicrotask(t)

SpecNotify ==
  /\ Init
  /\ [][NextNotify]_vars
  /\ WF_microtasks(\E t \in SUBSET SubscriberIds : NotifyMicrotask(t))

---------------------------------------------------------------------------
(* Claims about the index engine *)

(* C1: any two ids adjacent in the current ordered set whose entries are   *)
(* both of the current generation satisfy top(b) = top(a) + height(a) + gap *)
C1_Adjacency ==
  \A i \in 1..(Len(orderedIds) - 1) :
    LET a == orderedIds[i]
        b == orderedIds[i + 1] IN
    (/\ a \in DOMAIN measurements
     /\ b \in DOMAIN measurements
     /\ measurements[a].version = currentVersion
     /\ measurements[b].version = currentVersion)
    => measurements[b].top = measurements[a].top + measurements[a].height + Gap

(* C7: when the deferred update of measureItem(id, h) runs, the tops it    *)
(* writes are derived from the top and height the entry of id has at that  *)
(* time, over the ordered ids current at that time                         *)
C7_DeferredUpdateRevalidates ==
  [][(/\ hist'.op = "raf"
      /\ hist'.arg.kind = "measure"
      /\ hist'.id \in DOMAIN measurements)
     => measurements' =
          updateMeasurements(measurements, orderedIds, hist'.id,
                             measurements[hist'.id].top
                               + measurements[hist'.id].height + Gap, now)]_vars

(* C8: once dispose has run, a deferred callback scheduled before it does  *)
(* not change the position index, the viewport state or the maximized id,  *)
(* and a deferred notification invokes no subscriber                       *)
C8_NoDeferredMutationAfterDispose ==
  [][(disposed /\ hist'.op = "raf" /\ hist'.arg.live
        => UNCHANGED <<measurements, maximizedItemId, scrollVars>>)
     /\ (disposed /\ hist'.op = "notified" => hist'.arg.called = <<>>)]_vars

(* C9: after dispose, measureItem, toggleMaximize, setScrollContainer,     *)
(* handleScroll and scrollToTop leave the engine state unchanged           *)
C9_CallsAfterDisposeAreNoOps ==
  [][(disposed /\ hist'.op \in {"measureItem", "toggleMaximize",
                                "setScrollContainer", "handleScroll",
                                "scrollToTop"})
     => UNCHANGED <<measurements, maximizedItemId, scrollVars, isInitialized,
                    dom, rafQueue>>]_vars

(* C10: dispose may be called any number of times in a row; after each call *)
(* the data-source subscription is released (exactly once over all calls), *)
(* the scroll surface is detached with no listener or observer left, the   *)
(* subscriber set is empty, and a repeated call changes nothing            *)
C10_DisposeIdempotent ==
  [][(hist'.op = "dispose"
        => /\ scrollContainerElement' = NULL
           /\ ~resizeObserver'
           /\ scrollEventCleanup' = NULL
           /\ \A e \in Elements : dom'[e].listeners = 0 /\ dom'[e].observers = 0
           /\ subscribers' = <<>>
           /\ ~isInitialized'
           /\ ~dataUnsubscribe'
           /\ providerSubscribed' = 0
           /\ unsubscribeCalls' = 1)
     /\ (hist.op = "dispose" /\ hist'.op = "dispose"
        => UNCHANGED <<indexVars, scrollVars, managerVars, tmVars, envVars,
                       rafQueue, notifyVars, disposed, unsubscribeCalls,
                       dataChanges, maximizationConfig, fn>>)]_vars

(* dispose ran twice in a row on an engine whose surface had been attached *)
(* (its first deferred scroll read is still pending) and that had a        *)
(* subscriber notification scheduled                                       *)
C10_Witness ==
  /\ hist.op = "dispose"
  /\ hist.arg.n = 2
  /\ \E i \in 1..Len(rafQueue) : rafQueue[i].kind = "scroll" /\ rafQueue[i].live
  /\ unsubscribeCalls = 1

---------------------------------------------------------------------------
(* Claims about the reconciler engine *)

(* C2: the maximized id is one id or none; toggle(id) on the maximized id  *)
(* leads to none-maximized, toggle(id) in any other state leads to         *)
(* one-maximized(id); only toggle and clearMaximization (run by a dataset  *)
(* change) change the maximized id                                         *)
C2_MaximizeStateMachine ==
  [][/\ maximizedItemId' \in Ids \cup {NULL}
     /\ hist'.op = "toggleMaximize"
          => maximizedItemId' = IF maximizedItemId = hist'.id THEN NULL
                                ELSE hist'.id
     /\ maximizedItemId' # maximizedItemId
          => \/ hist'.op = "toggleMaximize"
             \/ /\ hist'.op = "handleDataChange"
                /\ maximizedItemId' = NULL
                /\ maximizedHeight' = 0]_vars

(* item 2 was toggled while item 1 was maximized (1 still carries the      *)
(* maximized height): 2 is now the maximized id                            *)
C2_Witness ==
  /\ hist.op = "toggleMaximize"
  /\ hist.id = 2
  /\ maximizedItemId = 2
  /\ 1 \in DOMAIN measurements
  /\ measurements[1].height = MinMaximizedHeight

(* C3: toggling item B while a measured item A is maximized leaves exactly *)
(* B maximized, and A's height in the index and the top of the item after  *)
(* A are back at A's last measured non-maximized height                    *)
C3_ExclusiveWithRevert ==
  [][(/\ hist'.op = "toggleMaximize"
      /\ maximizedItemId # NULL
      /\ hist'.id # maximizedItemId
      /\ maximizedItemId \in SeqToSet(orderedIds)
      /\ lastMeasured[maximizedItemId] # NULL)
     => /\ maximizedItemId' = hist'.id
        /\ maximizedItemId \in DOMAIN measurements'
        /\ measurements'[maximizedItemId].height = lastMeasured[maximizedItemId]
        /\ \A i \in 1..(Len(orderedIds) - 1) :
             orderedIds[i] = maximizedItemId
               => measurements'[orderedIds[i + 1]].top
                    = measurements'[maximizedItemId].top
                        + lastMeasured[maximizedItemId] + Gap]_vars

(* C5: after handleDataChange processed a filter transition whose new set  *)
(* lacks the maximized id, no id is maximized and the pending recovery is  *)
(* scroll-to-top: held in pendingScrollContext while no surface is         *)
(* attached, otherwise handed to the next animation frame                  *)
C5_FilterRecovery ==
  [][(/\ hist'.op = "handleDataChange"
      /\ hist'.arg.type = "filter"
      /\ maximizedItemId # NULL
      /\ maximizedItemId \notin hist'.arg.newIds)
     => /\ maximizedItemId' = NULL
        /\ maximizedHeight' = 0
        /\ IF scrollContainerElement = NULL
           THEN pendingScrollContext' = ScrollContext("top", NULL, NULL)
           ELSE /\ pendingScrollContext' = NULL
                /\ Len(rafQueue') = Len(rafQueue) + 1
                /\ rafQueue'[Len(rafQueue')].kind = "recovery"
                /\ rafQueue'[Len(rafQueue')].ctx.type = "top"]_vars

(* a filter transition just removed the maximized id with a surface        *)
(* attached: nothing is maximized and scroll-to-top waits for the frame    *)
C5_Witness ==
  /\ hist.op = "handleDataChange"
  /\ hist.arg.type = "filter"
  /\ hist.id # NULL
  /\ hist.id \notin hist.arg.newIds
  /\ maximizedItemId = NULL
  /\ rafQueue # <<>>
  /\ rafQueue[Len(rafQueue)].kind = "recovery"
  /\ rafQueue[Len(rafQueue)].ctx.type = "top"

(* C6: a recovery action runs in an animation frame after the index was    *)
(* rebuilt for the dataset change that chose it (or a later one), on an    *)
(* index whose tops are the rebuilt ones; handleDataChange itself rebuilds *)
(* the index for its change and moves no scroll offset                     *)
C6_RecoveryAfterRebuild ==
  [][/\ (hist'.op = "raf" /\ hist'.arg.kind = "recovery")
          => /\ hist'.arg.seq >= 1
             /\ rebuiltFor >= hist'.arg.seq
             /\ measurements = VLM_updateMeasurements(measurements, orderedIds,
                                 maximizedItemId, maximizedHeight,
                                 maximizationConfig)
     /\ hist'.op = "handleDataChange"
          => /\ rebuiltFor' = dataChanges'
             /\ dom' = dom]_vars

(* the recovery chosen by the second dataset change has just run *)
C6_Witness ==
  /\ hist.op = "raf"
  /\ hist.arg.kind = "recovery"
  /\ hist.arg.seq = 2
  /\ rebuiltFor = 2

(* C4: analyzeDataTransition returns append when old is a subset of new    *)
(* and new is strictly larger, filter when new is a subset of old and      *)
(* strictly smaller, and replace whenever the sets have equal size         *)
C4_ClassificationBySubset ==
  fn.result # "none"
    => LET oldSize == Cardinality(fn.oldIds)
           newSize == Cardinality(fn.newIds) IN
       /\ (fn.oldIds \subseteq fn.newIds /\ newSize > oldSize)
            => fn.result = "append"
       /\ (fn.newIds \subseteq fn.oldIds /\ newSize < oldSize)
            => fn.result = "filter"
       /\ newSize = oldSize => fn.result = "replace"

(* {1,2,3,4,5} -> {2,4} has been classified as filter *)
C4_Witness ==
  /\ fn.oldIds = {1, 2, 3, 4, 5}
  /\ fn.newIds = {2, 4}
  /\ fn.result = "filter"

---------------------------------------------------------------------------
(* Claims about notification *)

(* C11: the notify() calls made before the microtask runs share one queued *)
(* microtask; no subscriber is called inside a mutating call; the          *)
(* microtask calls every subscriber exactly once; a mutation after the     *)
(* delivery requests a new notification; and a requested notification is   *)
(* eventually delivered                                                    *)
C11_Step ==
  /\ microtasks' <= 1
  /\ notifyScheduled' <=> (microtasks' = 1)
  /\ hist'.op # "notified"
       => \A s \in SubscriberIds : invoked'[s] <= invoked[s]
  /\ hist'.op = "notified"
       => /\ notifyScheduled
          /\ hist'.arg.requests >= 1
          /\ \A s \in SubscriberIds :
               invoked'[s] = IF s \in SeqToSet(subscribers) THEN 1 ELSE 0
  /\ hist'.op = "toggleMaximize"
       => notifyScheduled' /\ requests' >= 1

C11_NotificationCoalescing ==
  /\ [][C11_Step]_<<notifyVars, maximizedItemId>>
  /\ (notifyScheduled ~> (hist.op = "notified"))

(* two subscribers were each called once by the delivery that followed two *)
(* or more notify() calls                                                  *)
C11_Witness ==
  /\ hist.op = "notified"
  /\ hist.arg.requests = MaxBurst
  /\ Len(hist.arg.called) = 2
  /\ \A s \in SubscriberIds : invoked[s] = 1
  /\ ~notifyScheduled

---------------------------------------------------------------------------
(* C12: during one notification a subscriber that throws does not keep any *)
(* other registered subscriber from being called, the error does not leave *)
(* the delivery, and the engine state is as after a delivery in which      *)
(* nobody threw: the flag is clear, the index, the scroll state and the    *)
(* subscriber list are untouched; a request made afterwards is delivered   *)
C12_Step ==
  hist'.op = "notified"
    => /\ hist'.arg.called = subscribers
       /\ ~hist'.arg.propagated
       /\ ~notifyScheduled'
       /\ microtasks' = 0
       /\ subscribers' = subscribers
       /\ UNCHANGED <<indexVars, scrollVars, rafQueue, disposed>>

C12_SubscriberFailureIsolation ==
  /\ [][C12_Step]_vars
  /\ ((hist.op = "toggleMaximize" /\ notifyScheduled)
        ~> (hist.op = "notified" /\ ~notifyScheduled))

C12_Witness ==
  /\ hist.op = "notified"
  /\ hist.arg.threw = {1}
  /\ hist.arg.called = <<1, 2>>
  /\ invoked[2] = 1
  /\ ~notifyScheduled
  /\ maximizedItemId # NULL

---------------------------------------------------------------------------
(* C13: measureItem(id, h) with h <= 0 leaves the whole position index     *)
(* unchanged (no entry created or modified, no top shifted), schedules no  *)
(* deferred update and requests no subscriber notification                 *)
C13_InvalidMeasurementDiscarded ==
  [][(hist'.op = "measureItem" /\ hist'.arg.n <= 0)
       => /\ measurements' = measurements
          /\ rafQueue' = rafQueue
          /\ UNCHANGED <<currentVersion, maximizedItemId, maximizedHeight>>
          /\ UNCHANGED notifyVars]_vars

C13_Witness ==
  /\ hist.op = "measureItem"
  /\ hist.arg.n < 0
  /\ hist.id \in SeqToSet(orderedIds)
  /\ hist.id \notin DOMAIN measurements
  /\ DOMAIN measurements # {}

---------------------------------------------------------------------------
(* C14: for an id of the current ordered set and h > 0, right after        *)
(* measureItem(id, h) the lookup of id returns an entry whose height is     *)
(* within 1 of h and whose top is 0 when id is first, and otherwise the     *)
(* top + height + gap of its predecessor (when the predecessor has a        *)
(* current entry)                                                           *)
C14_Step ==
  (/\ hist'.op = "measureItem"
   /\ hist'.arg.n > 0
   /\ hist'.id \in SeqToSet(orderedIds))
    => LET id == hist'.id
           i == IndexOf(orderedIds', id)
           found(x) == /\ x \in DOMAIN measurements'
                       /\ measurements'[x].version = currentVersion'
           e == getMeasurementById(measurements', id, currentVersion') IN
       /\ found(id)
       /\ Abs(e.height - hist'.arg.n) <= 1
       /\ i = 1 => e.top = 0
       /\ (i > 1 /\ found(orderedIds'[i - 1])) =>
            LET p == getMeasurementById(measurements', orderedIds'[i - 1],
                                        currentVersion') IN
            e.top = p.top + p.height + Gap

C14_MeasureLookupRoundTrip == [][C14_Step]_vars

---------------------------------------------------------------------------
(* C15: when the data source publishes the same ordered ids twice in a row *)
(* with nothing in between, the second rebuild leaves every id with the    *)
(* height and top the first rebuild left it with (an id without a current  *)
(* entry after the first has none after the second)                        *)
SameLookup(m1, v1, m2, v2, id) ==
  LET has1 == id \in DOMAIN m1 /\ m1[id].version = v1
      has2 == id \in DOMAIN m2 /\ m2[id].version = v2 IN
  /\ has1 <=> has2
  /\ has1 => /\ getMeasurementById(m1, id, v1).height
                  = getMeasurementById(m2, id, v2).height
             /\ getMeasurementById(m1, id, v1).top
                  = getMeasurementById(m2, id, v2).top

C15_RebuildIdempotent ==
  [][(/\ hist.op = "dataChange"
      /\ hist'.op = "dataChange"
      /\ orderedIds' = orderedIds)
       => \A id \in Ids :
            SameLookup(measurements, currentVersion,
                       measurements', currentVersion', id)]_vars

C15_Witness ==
  /\ hist.op = "dataChange"
  /\ hist.arg.after = "dataChange"
  /\ hist.arg.same
  /\ dataChanges = 2
  /\ orderedIds = <<2, 1>>
  /\ currentVersion = 2
  /\ DOMAIN measurements = {1, 2}
  /\ measurements[2].height = 50
  /\ measurements[2].top = 0
  /\ measurements[1].top = 50 + Gap
  /\ measurements[1].version = 2

---------------------------------------------------------------------------
(* C18: right after every rebuild the index holds no entry whose           *)
(* generation lags the current one by 2 or more and no entry whose         *)
(* lastUsed is more than the staleness window (60 s) in the past           *)
C18_StaleEntriesPurged ==
  [][(hist'.op = "dataChange" /\ providerSubscribed > 0)
       => \A id \in DOMAIN measurements' :
            /\ measurements'[id].version >= currentVersion' - 1
            /\ measurements'[id].lastUsed >= now' - StaleWindow]_vars

C18_Witness ==
  /\ hist.op = "dataChange"
  /\ hist.arg.purged = {2}
  /\ now = 0
  /\ currentVersion = 2
  /\ 1 \in DOMAIN measurements

---------------------------------------------------------------------------
(* C16: whenever every id of the non-empty ordered set has an entry of the *)
(* current generation, getTotalHeight() is the top + height of the last id *)
(* of the ordered set                                                      *)
C16_TotalHeightMatchesLast ==
  (/\ orderedIds # <<>>
   /\ \A i \in 1..Len(orderedIds) :
        /\ orderedIds[i] \in DOMAIN measurements
        /\ measurements[orderedIds[i]].version = currentVersion)
    => LET last == measurements[orderedIds[Len(orderedIds)]] IN
       TotalHeightNow = last.top + last.height

---------------------------------------------------------------------------
(* C17: the lookup of an id returns its entry exactly when the entry is of *)
(* the current generation and nothing otherwise; so every visible item     *)
(* carries a current entry, and scroll-to-item for an id whose entry is    *)
(* stale proceeds as for an id without measurement (its index times the    *)
(* default height when it is in the list, no scrolling when it is not)     *)
C17_LookupIsCurrent ==
  \A id \in Ids :
    LET e == getMeasurementById(measurements, id, currentVersion) IN
    IF id \in DOMAIN measurements /\ measurements[id].version = currentVersion
    THEN e = measurements[id]
    ELSE e = Undefined

C17_VisibleAreCurrent ==
  LET items == getVisibleItems(measurements, orderedIds, currentVersion,
                               maximizedItemId, scrollTop, containerHeight,
                               SeqToSet(orderedIds)) IN
  \A i \in 1..Len(items) :
    /\ items[i].id \in DOMAIN measurements
    /\ items[i].measurement = measurements[items[i].id]
    /\ items[i].measurement.version = currentVersion

C17_ScrollSkipsStale ==
  (/\ hist'.op = "raf"
   /\ hist'.arg.kind = "maximize"
   /\ hist'.id \in DOMAIN measurements
   /\ measurements[hist'.id].version # currentVersion)
    => dom' = IF scrollContainerElement # NULL
                 /\ IndexOf(orderedIds, hist'.id) # 0
              THEN SetDomScrollTop(dom, scrollContainerElement,
                     (IndexOf(orderedIds, hist'.id) - 1) * DefaultItemHeight)
              ELSE dom

C17_NoStaleEntrySurfaces ==
  [][/\ C17_LookupIsCurrent
     /\ C17_VisibleAreCurrent
     /\ C17_ScrollSkipsStale]_vars

C17_Witness ==
  /\ hist.op = "raf"
  /\ hist.arg.kind = "maximize"
  /\ scrollContainerElement # NULL
  /\ hist.id \in DOMAIN measurements
  /\ measurements[hist.id].version < currentVersion
  /\ measurements[hist.id].top > 0
  /\ orderedIds # <<>>
  /\ dom[scrollContainerElement].scrollTop = 0

---------------------------------------------------------------------------
(* C19: visibleItems holds every id of the ordered set whose [top,          *)
(* top + height) meets the window [scrollOffset - 5 * defaultHeight,        *)
(* scrollOffset + containerHeight + 5 * defaultHeight], no id whose         *)
(* interval lies strictly outside that window, in list order, each paired   *)
(* with its measurement and with isMaximized = (id = maximized id)          *)
DerivationHolds(m, order, items, sTop, cHeight, maxId) ==
  LET lo == sTop - 5 * DefaultItemHeight
      hi == sTop + cHeight + 5 * DefaultItemHeight
      shown == {items[i].id : i \in 1..Len(items)} IN
  /\ \A id \in SeqToSet(order) :
       (m[id].top <= hi /\ m[id].top + m[id].height > lo) => id \in shown
  /\ \A id \in shown :
       /\ id \in SeqToSet(order)
       /\ ~(m[id].top + m[id].height < lo \/ m[id].top > hi)
  /\ \A i, j \in 1..Len(items) :
       i < j => IndexOf(order, items[i].id) < IndexOf(order, items[j].id)
  /\ \A i \in 1..Len(items) :
       /\ items[i].measurement = m[items[i].id]
       /\ items[i].isMaximized = (items[i].id = maxId)

(* the derivation of the facade over the position index (part_003) *)
C19_IndexEngine ==
  fn.done =>
    DerivationHolds(LayoutOf(fn.order, fn.measured), fn.order, fn.visibleItems,
                    fn.scrollTop, fn.containerHeight, fn.maximizedItemId)

(* the derivation of core/VirtualizedListManager.ts *)
C19_Reconciler ==
  fn.vlmDone =>
    DerivationHolds(VLM_LayoutOf(fn.order, fn.measured, fn.maximizedItemId),
                    fn.order, fn.vlmVisibleItems, fn.scrollTop,
                    fn.containerHeight, fn.maximizedItemId)

C19_VisibleItemDerivation ==
  /\ C19_IndexEngine
  /\ C19_Reconciler

C19_Witness ==
  /\ fn.done
  /\ fn.order = <<2, 3, 1>>
  /\ fn.measured = {2, 3}
  /\ fn.scrollTop = 110
  /\ fn.containerHeight = 300
  /\ fn.maximizedItemId = 3
  /\ Len(fn.visibleItems) = 2
  /\ fn.visibleItems[2].id = 3
  /\ fn.visibleItems[2].measurement.top = TallHeight + Gap
  /\ fn.visibleItems[2].isMaximized

---------------------------------------------------------------------------
(* C20: for 1000 items of height 100 with no gap, scroll offset 5000,      *)
(* container height 400 and an overscan of 5 x 100, the visible range      *)
(* includes the indices 45 to 59 and excludes the indices 40 and 65, for   *)
(* the binary-search calculator, for its unmeasured estimate and for the   *)
(* walk over the measurements                                              *)
InScenarioRange(r) ==
  r # NoRange =>
    /\ r.startIndex <= 45 /\ r.endIndex >= 59
    /\ r.startIndex > 40 /\ r.endIndex < 65

C20_Estimate ==
  (fn.scrollTop = 5000 /\ fn.containerHeight = 400) => InScenarioRange(fn.estimate)

C20_BinarySearch ==
  (fn.scrollTop = 5000 /\ fn.containerHeight = 400) => InScenarioRange(fn.search)

C20_Walk ==
  (fn.scrollTop = 5000 /\ fn.containerHeight = 400) => InScenarioRange(fn.walk)

C20_ViewportScenario ==
  /\ C20_Estimate
  /\ C20_BinarySearch
  /\ C20_Walk

---------------------------------------------------------------------------
(* C21: whenever the list is initialized, the data source holds at least   *)
(* one item and no measured item meets the window widened by the overscan, *)
(* the visible items come from an index estimate and are not empty         *)
NoneIntersects(m, order, v, sTop, cHeight) ==
  LET lo == sTop - Overscan * DefaultItemHeight
      hi == sTop + cHeight + Overscan * DefaultItemHeight IN
  \A id \in SeqToSet(order) :
    LET e == getMeasurementById(m, id, v) IN
    e = Undefined \/ e.top + e.height < lo \/ e.top > hi

(* the facade over the position index (part_003), in every state of the    *)
(* engine                                                                  *)
C21_FallbackBeforeMeasurement ==
  (/\ isInitialized
   /\ orderedIds # <<>>
   /\ NoneIntersects(measurements, orderedIds, currentVersion, scrollTop,
                     containerHeight))
    => getVisibleItems(measurements, orderedIds, currentVersion,
                       maximizedItemId, scrollTop, containerHeight,
                       SeqToSet(orderedIds)) # <<>>

(* core/VirtualizedListManager.ts, whose walk ends in the estimate of      *)
(* lines 393-401: an initialized list over a non-empty order shows items   *)
C21_Reconciler ==
  (fn.vlmDone /\ fn.order # <<>>) => fn.vlmVisibleItems # <<>>

(* the reconciler's estimate is reached: every slot lies above the window *)
C21_ReconcilerFallbackReached ==
  /\ fn.vlmDone
  /\ fn.order # <<>>
  /\ Intersecting(VLM_LayoutOf(fn.order, fn.measured, fn.maximizedItemId),
                  fn.order, fn.scrollTop - Overscan * DefaultItemHeight,
                  fn.scrollTop + Overscan * DefaultItemHeight) = {}

---------------------------------------------------------------------------
(* C22: when visible items are built, an id that has a position entry but  *)
(* for which the data source's getItemById returns null is left out of     *)
(* visibleItems, and every other id whose entry meets the window is still  *)
(* returned, in list order                                                 *)
MeetsWindow(m, id, sTop, cHeight) ==
  /\ id \in DOMAIN m
  /\ m[id].top + m[id].height >= Max(0, sTop - Overscan * DefaultItemHeight)
  /\ m[id].top <= sTop + cHeight + Overscan * DefaultItemHeight

---------------------------------------------------------------------------
(* C23: calculateMaximizedHeight returns the explicit height when one is   *)
(* given; otherwise 0 in natural mode; maxHeight if set, else container    *)
(* height x 0.8, in custom mode; and max(200, min(containerHeight x        *)
(* containerPercentage, containerHeight - neighborSpace)) in percentage    *)
(* and fixed modes, for every configured percentage and neighbor space     *)
MaximizedPolicy(cfg, customHeight, cHeight) ==
  IF customHeight # NULL THEN customHeight
  ELSE IF cfg.mode = "natural" THEN 0
  ELSE IF cfg.mode = "custom"
       THEN (IF cfg.maxHeight # NULL THEN cfg.maxHeight ELSE (cHeight * 80) \div 100)
  ELSE Max(200, Min((cHeight * cfg.containerPercentage) \div 100,
                    cHeight - cfg.neighborSpace))

(* core/Measurements.ts *)
C23_IndexEngine ==
  fn.done => fn.height = MaximizedPolicy(fn.cfg, fn.customHeight,
                                         fn.containerHeight)

(* core/VirtualizedListManager.ts *)
C23_Reconciler ==
  fn.vlmDone => fn.vlmHeight = MaximizedPolicy(fn.cfg, fn.customHeight,
                                               fn.containerHeight)

(* the policy with a neighbor space that is configured and not zero *)
C23_IndexEngineNonZeroSpace ==
  (fn.done /\ fn.cfg.neighborSpace # 0) =>
    fn.height = MaximizedPolicy(fn.cfg, fn.customHeight, fn.containerHeight)

(* the scenario: container 800, fixed, 0.7, neighbor space 100 gives 560 *)
C23_Scenario ==
  (/\ fn.cfg.mode = "fixed"
   /\ fn.cfg.containerPercentage = 70
   /\ fn.cfg.neighborSpace = 100
   /\ fn.customHeight = NULL
   /\ fn.containerHeight = 800)
    => /\ fn.done => fn.height = 560
       /\ fn.vlmDone => fn.vlmHeight = 560

C23_MaximizedHeightPolicy ==
  /\ C23_IndexEngine
  /\ C23_Reconciler

---------------------------------------------------------------------------
(* C24: every scroll target issued by scrollToTop and by scrollToItem, for *)
(* a measured item (centered or minimal scroll) and for an unmeasured one  *)
(* (index estimate), lies within [0, max(0, totalHeight - containerHeight)] *)
Clamped(top) ==
  top >= 0 /\ top <= Max(0, TotalHeightNow - containerHeight)

(* the deferred scroll-to-item of toggleMaximize, on the state it runs in *)
C24_ScrollToItemStep ==
  (hist'.op = "raf" /\ hist'.arg.kind = "maximize") =>
    LET t == Manager_scrollTarget(hist'.id) IN
    t.issue => Clamped(t.top)

(* scrollToTop issues 0 *)
C24_ScrollToTopStep ==
  (hist'.op = "scrollToTop" /\ scrollContainerElement # NULL) =>
    dom'[scrollContainerElement].scrollTop = 0

(* the same for targets computed from a measurement only *)
C24_MeasuredStep ==
  (hist'.op = "raf" /\ hist'.arg.kind = "maximize"
     /\ getMeasurementById(measurements, hist'.id, currentVersion) # Undefined) =>
    LET t == Manager_scrollTarget(hist'.id) IN
    t.issue => Clamped(t.top)

C24_MeasuredTargetsClamped == [][C24_MeasuredStep]_vars

C24_ScrollTargetsClamped ==
  [][C24_ScrollToItemStep /\ C24_ScrollToTopStep]_vars

---------------------------------------------------------------------------
(* C25: a size report for an id that is not in the current ordered set     *)
(* never changes totalHeight() and never changes the top of any item of    *)
(* the current ordered set, neither in the call nor in its deferred update *)
SameTop(m1, v1, m2, v2, id) ==
  LET a == getMeasurementById(m1, id, v1)
      b == getMeasurementById(m2, id, v2) IN
  \/ a = Undefined /\ b = Undefined
  \/ a # Undefined /\ b # Undefined /\ a.top = b.top

StrayReport ==
  /\ \/ hist'.op = "measureItem"
     \/ hist'.op = "raf" /\ hist'.arg.kind = "measure"
  /\ hist'.id \notin SeqToSet(orderedIds)

C25_TotalHeightStep ==
  StrayReport => TotalHeightNow' = TotalHeightNow

C25_TopsStep ==
  StrayReport =>
    \A id \in SeqToSet(orderedIds) :
      SameTop(measurements, currentVersion, measurements', currentVersion', id)

(* the part about totalHeight() alone *)
C25_TotalHeightUnchanged == [][C25_TotalHeightStep]_vars

C25_StrayReportIsInert == [][C25_TotalHeightStep /\ C25_TopsStep]_vars


(* the same report on the reconciler, whose total sums every stored slot *)
C25_ReconcilerStep ==
  (hist'.op = "measureItem" /\ hist'.id \notin SeqToSet(orderedIds)) =>
    VLM_TotalHeightNow' = VLM_TotalHeightNow

C25_ReconcilerTotalUnchanged == [][C25_ReconcilerStep]_vars

---------------------------------------------------------------------------
(* C26: for id sets of different sizes where neither is a subset of the    *)
(* other, analyzeDataTransition returns reorder exactly when               *)
(* |old n new| > 0.5 x min(|old|, |new|) and unknown otherwise; with the   *)
(* append, filter and replace cases every pair of sets, empty ones         *)
(* included, gets exactly one of the five classes                          *)
PartialOverlap(oldIds, newIds) ==
  /\ Cardinality(oldIds) # Cardinality(newIds)
  /\ ~(oldIds \subseteq newIds)
  /\ ~(newIds \subseteq oldIds)

C26_ReorderVersusUnknown ==
  fn.result # "none" =>
    LET common == Cardinality(fn.oldIds \cap fn.newIds)
        smaller == Min(Cardinality(fn.oldIds), Cardinality(fn.newIds))
        partial == PartialOverlap(fn.oldIds, fn.newIds) IN
    /\ fn.result \in {"append", "filter", "replace", "reorder", "unknown"}
    /\ fn.result = "reorder" <=> (partial /\ 2 * common > smaller)
    /\ fn.result = "unknown" <=> (partial /\ 2 * common <= smaller)

(* {1,2} -> {1,3,4} shares exactly half of the smaller set: unknown *)
C26_Witness ==
  /\ fn.oldIds = {1, 2}
  /\ fn.newIds = {1, 3, 4}
  /\ fn.result = "unknown"

(* {1,2,3} -> {1,2,4,5} shares two of three: reorder *)
C26_WitnessReorder ==
  /\ fn.oldIds = {1, 2, 3}
  /\ fn.newIds = {1, 2, 4, 5}
  /\ fn.result = "reorder"

---------------------------------------------------------------------------
(* the recovery actions, as the scroll context handleDataChange chose *)
ReAnchorTo(id) == fn.context.type = "item" /\ fn.context.itemId = id
ResetToTop == fn.context.type = "top"
(* preserve-ratio with a ratio equal to the fraction r *)
PreserveRatio(r) ==
  /\ fn.context.type = "ratio"
  /\ fn.context.scrollRatio[1] * r[2] = r[1] * fn.context.scrollRatio[2]
Persists == fn.maximizedItemId # NULL /\ fn.maximizedItemId \in fn.newIds
Removed == fn.maximizedItemId # NULL /\ fn.maximizedItemId \notin fn.newIds

(* C27: on a filter transition that does not remove the maximized item: if *)
(* a maximized item remains in the new set the action is re-anchor to it   *)
(* and it stays maximized; else, nothing being maximized, the action is    *)
(* reset to top when the new set is empty or has fewer than 20 items, and  *)
(* otherwise preserve scroll ratio with min(current ratio, 0.5)            *)
C27_FilterKeepsOrCaps ==
  (fn.done /\ fn.type = "filter" /\ ~Removed) =>
    IF Persists
    THEN ReAnchorTo(fn.maximizedItemId) /\ fn.maximizedAfter = fn.maximizedItemId
    ELSE IF Cardinality(fn.newIds) = 0 \/ Cardinality(fn.newIds) < 20
    THEN ResetToTop
    ELSE IF 2 * fn.scrollTopRatio[1] > fn.scrollTopRatio[2]
    THEN PreserveRatio(<<1, 2>>)
    ELSE PreserveRatio(fn.scrollTopRatio)

(* 25 items filtered to 21 at ratio 3/4 with nothing maximized: ratio 1/2 *)
C27_Witness ==
  /\ fn.done
  /\ fn.type = "filter"
  /\ fn.maximizedItemId = NULL
  /\ Cardinality(fn.newIds) >= 20
  /\ fn.scrollTopRatio = <<3, 4>>
  /\ PreserveRatio(<<1, 2>>)

(* a filter that keeps the maximized id 2 re-anchors to it *)
C27_WitnessReAnchor ==
  /\ fn.done
  /\ fn.type = "filter"
  /\ fn.maximizedItemId = 2
  /\ ReAnchorTo(2)

---------------------------------------------------------------------------
(* C28: on a replace transition: if the maximized item persists in the new *)
(* set the action is re-anchor to it; if a maximized item existed and was  *)
(* removed, maximization is cleared and the action preserves the current   *)
(* scroll ratio; if nothing was maximized the action preserves the current *)
(* scroll ratio; a replace never resets to top                             *)
C28_ReplaceRecovery ==
  (fn.done /\ fn.type = "replace") =>
    /\ Persists => /\ ReAnchorTo(fn.maximizedItemId)
                   /\ fn.maximizedAfter = fn.maximizedItemId
    /\ Removed => /\ fn.maximizedAfter = NULL
                  /\ PreserveRatio(fn.scrollTopRatio)
    /\ fn.maximizedItemId = NULL => PreserveRatio(fn.scrollTopRatio)
    /\ ~ResetToTop

(* ids 1..25 replaced by 2..26 while id 1 was maximized, at ratio 3/4 *)
C28_Witness ==
  /\ fn.done
  /\ fn.type = "replace"
  /\ fn.maximizedItemId = 1
  /\ 1 \notin fn.newIds
  /\ fn.newIds # {}
  /\ fn.maximizedAfter = NULL
  /\ fn.scrollTopRatio = <<3, 4>>
  /\ PreserveRatio(<<3, 4>>)

---------------------------------------------------------------------------
(* C29: on a reorder transition: if the maximized item persists in the new *)
(* set the action is re-anchor to it and it stays maximized; otherwise any *)
(* maximization is cleared and the action is reset to top                  *)
C29_ReorderRecovery ==
  (fn.done /\ fn.type = "reorder") =>
    IF Persists
    THEN ReAnchorTo(fn.maximizedItemId) /\ fn.maximizedAfter = fn.maximizedItemId
    ELSE fn.maximizedAfter = NULL /\ ResetToTop

(* a reorder that drops the maximized id 1 clears it and resets to top *)
C29_Witness ==
  /\ fn.done
  /\ fn.type = "reorder"
  /\ fn.maximizedItemId = 1
  /\ 1 \notin fn.newIds
  /\ fn.maximizedAfter = NULL
  /\ ResetToTop

(* a reorder that keeps the maximized id 2 re-anchors to it *)
C29_WitnessReAnchor ==
  /\ fn.done
  /\ fn.type = "reorder"
  /\ fn.maximizedItemId = 2
  /\ ReAnchorTo(2)
  /\ fn.maximizedAfter = 2

---------------------------------------------------------------------------
(* C30: on an unknown transition the action is always reset to top, and    *)
(* maximization is cleared if and only if the maximized item is absent     *)
(* from the new set; a maximized item that survives stays maximized        *)
C30_UnknownRecovery ==
  (fn.done /\ fn.type = "unknown") =>
    /\ ResetToTop
    /\ Removed => fn.maximizedAfter = NULL
    /\ ~Removed => fn.maximizedAfter = fn.maximizedItemId

(* an unknown transition that keeps the maximized id 2: still maximized *)
C30_Witness ==
  /\ fn.done
  /\ fn.type = "unknown"
  /\ fn.maximizedItemId = 2
  /\ 2 \in fn.newIds
  /\ fn.maximizedAfter = 2
  /\ ResetToTop

(* an unknown transition that drops the maximized id 1 *)
C30_WitnessCleared ==
  /\ fn.done
  /\ fn.type = "unknown"
  /\ fn.maximizedItemId = 1
  /\ 1 \notin fn.newIds
  /\ fn.maximizedAfter = NULL

---------------------------------------------------------------------------
C31_AppendFrame ==
  [][(hist'.op = "handleDataChange" /\ hist'.arg.type = "append") =>
       /\ DOMAIN measurements \subseteq DOMAIN measurements'
       /\ maximizedItemId' = maximizedItemId
       /\ maximizedHeight' = maximizedHeight
       /\ IF scrollContainerElement = NULL
          THEN pendingScrollContext' = ScrollContext("ratio", scrollTopRatio, NULL)
          ELSE /\ rafQueue'[Len(rafQueue')].kind = "recovery"
               /\ rafQueue'[Len(rafQueue')].ctx
                    = ScrollContext("ratio", scrollTopRatio, NULL)]_vars

---------------------------------------------------------------------------
(* C32: after a dataset change has been fully processed (classification,   *)
(* pruning, rebuild), the position index holds no entry for any id that    *)
(* was in the previous ordered set and is not in the new one               *)
NoEntryForRemoved ==
  \A id \in SeqToSet(orderedIds) \ SeqToSet(orderedIds') :
    id \notin DOMAIN measurements'

(* the index engine: startNewVersion and buildMeasurements *)
C32_RemovedEntriesDeleted ==
  [][(hist'.op = "dataChange" /\ providerSubscribed > 0) => NoEntryForRemoved]_vars

(* the reconciler: handleDataChange with cleanupRemovedItems *)
C32_Reconciler ==
  [][hist'.op = "handleDataChange" => NoEntryForRemoved]_vars

(* the reconciler once its snapshot of the previous ids is the previous    *)
(* ordered set, for the classes whose handler prunes                       *)
C32_ReconcilerAfterFirstChange ==
  [][(/\ hist'.op = "handleDataChange"
      /\ lastDataSnapshot = SeqToSet(orderedIds))
       => NoEntryForRemoved]_vars

(* what the index engine does guarantee: an entry of a removed id is not   *)
(* of the current generation, so no lookup returns it                      *)
C32_RemovedEntriesAreStale ==
  [][(hist'.op = "dataChange" /\ providerSubscribed > 0) =>
       \A id \in SeqToSet(orderedIds) \ SeqToSet(orderedIds') :
         getMeasurementById(measurements', id, currentVersion') = Undefined]_vars

---------------------------------------------------------------------------
(* C33: after a dataset change has been processed the maximized id is null *)
(* or a member of the new ordered set, provided it was null or a member of *)
(* the previous ordered set before the change, for every classification    *)
MaximizedInOrder ==
  maximizedItemId = NULL \/ maximizedItemId \in SeqToSet(orderedIds)

(* the index engine: the data subscription of the facade *)
C33_MaximizedStaysInOrder ==
  [][(hist'.op = "dataChange" /\ providerSubscribed > 0 /\ MaximizedInOrder)
       => MaximizedInOrder']_vars

(* the reconciler: handleDataChange and its handlers *)
C33_Reconciler ==
  [][(hist'.op = "handleDataChange" /\ MaximizedInOrder)
       => MaximizedInOrder']_vars

(* the reconciler once its snapshot is the previous ordered set *)
C33_ReconcilerAfterFirstChange ==
  [][(/\ hist'.op = "handleDataChange"
      /\ lastDataSnapshot = SeqToSet(orderedIds)
      /\ MaximizedInOrder)
       => MaximizedInOrder']_vars

(* the handlers on a pair of snapshots, every class included *)
C33_Handlers ==
  (fn.done /\ (fn.maximizedItemId = NULL \/ fn.maximizedItemId \in fn.oldIds))
    => (fn.maximizedAfter = NULL \/ fn.maximizedAfter \in fn.newIds)

---------------------------------------------------------------------------
(* C34: a toggle that enters one-maximized(id) schedules one deferred      *)
(* scroll-to-item for id, and when that scroll runs the position index     *)
(* entry of id already carries the maximized height (non-natural modes),   *)
(* so the centering target is computed from it; a toggle that collapses    *)
(* schedules no scroll                                                     *)
MaximizedHeights ==
  {calculateMaximizedHeight(maximizationConfig, NULL, c) : c \in {0} \cup ClientHeights}

C34_SchedulingStep ==
  hist'.op = "toggleMaximize" =>
    IF maximizedItemId # hist'.id
    THEN /\ Len(rafQueue') = Len(rafQueue) + 1
         /\ rafQueue'[Len(rafQueue')].kind = "maximize"
         /\ rafQueue'[Len(rafQueue')].id = hist'.id
    ELSE rafQueue' = rafQueue

(* the deferred scroll of an id that is still maximized when it runs *)
C34_HeightStep ==
  (/\ hist'.op = "raf"
   /\ hist'.arg.kind = "maximize"
   /\ maximizedItemId = hist'.id
   /\ maximizationConfig.mode # "natural") =>
    LET e == getMeasurementById(measurements, hist'.id, currentVersion) IN
    /\ e # Undefined
    /\ e.height \in MaximizedHeights

(* the scheduling part alone *)
C34_OneScrollPerEntering == [][C34_SchedulingStep]_vars

C34_CenterScrollSeesNewHeight ==
  [][C34_SchedulingStep /\ C34_HeightStep]_vars

(* the same on the reconciler, whose toggle rewrites the entry at once *)
C34_ReconcilerStep ==
  (/\ hist'.op = "raf"
   /\ hist'.arg.kind = "vlmMaximize"
   /\ maximizedItemId = hist'.id
   /\ hist'.id \in SeqToSet(orderedIds)
   /\ maximizationConfig.mode # "natural") =>
    /\ hist'.id \in DOMAIN measurements
    /\ measurements[hist'.id].height = maximizedHeight
    /\ maximizedHeight > 0

C34_Reconciler == [][C34_ReconcilerStep]_vars

---------------------------------------------------------------------------
(* C35: handleScroll(offset) with |offset - last accepted offset| < 1      *)
(* leaves the scroll offset, the scroll ratio and showScrollToTop unchanged *)
(* and sends no notification; otherwise it stores the offset, recomputes   *)
(* scrollRatio = offset / max(1, totalHeight - containerHeight) and        *)
(* notifies; in every reachable state showScrollToTop is true exactly when *)
(* the stored offset exceeds 200                                           *)
SameRatio(a, b) == a[1] * b[2] = b[1] * a[2]

C35_IgnoredStep ==
  (hist'.op = "handleScroll" /\ Abs(hist'.arg.n - lastKnownScrollTop) < 1) =>
    /\ scrollTop' = scrollTop
    /\ scrollTopRatio' = scrollTopRatio
    /\ showScrollToTop' = showScrollToTop
    /\ notifyVars' = notifyVars

C35_StoredStep ==
  (hist'.op = "handleScroll" /\ Abs(hist'.arg.n - lastKnownScrollTop) >= 1) =>
    /\ scrollTop' = hist'.arg.n
    /\ lastKnownScrollTop' = hist'.arg.n
    /\ notifyScheduled'

C35_RatioStep ==
  (hist'.op = "handleScroll" /\ Abs(hist'.arg.n - lastKnownScrollTop) >= 1) =>
    SameRatio(scrollTopRatio',
              <<hist'.arg.n, Max(1, TotalHeightNow - containerHeight)>>)

C35_ShowScrollToTop == showScrollToTop <=> (scrollTop > ScrollToTopThreshold)

(* everything but the recomputation of the ratio *)
C35_DebounceAndStore == [][C35_IgnoredStep /\ C35_StoredStep]_vars

C35_HandleScroll ==
  [][C35_IgnoredStep /\ C35_StoredStep /\ C35_RatioStep]_vars

---------------------------------------------------------------------------
(* SpecResize: the scroll adapter on a surface attached once, whose list is *)
(* replaced by a list taller than the surface or by the short initial one  *)
ResizeCount == 8     \* items of the tall list of SpecResize

ResizeOrders == {<<1, 2>>, [i \in 1..ResizeCount |-> i]}

NextResize ==
  \/ \E el \in Elements : scrollContainerElement = NULL /\ setScrollContainer(el)
  \/ \E s \in ScrollOffsets : handleScroll(s)
  \/ \E el \in Elements, h \in ClientHeights : Resize(el, h)
  \/ \E o \in ResizeOrders : DataChange(o)
  \/ RunAnimationFrame
  \/ RunMicrotask

SpecResize == Init /\ [][NextResize]_vars
---------------------------------------------------------------------------
(* C36: on a container resize to a new positive height different from the  *)
(* current one, the scroll ratio is first computed from the old container  *)
(* height and the current offset (whenever the list has a total height),   *)
(* then the new height is applied in the same step, and the offset of the  *)
(* surface is rescaled to ratio x max(0, totalHeight - newHeight) only in  *)
(* a later animation frame, from the total height of that time             *)
ResizeApplies(el, newHeight) ==
  dom[el].observers > 0 /\ newHeight # containerHeight /\ newHeight > 0

C36_ResizeStep ==
  (hist'.op = "resize" /\ ResizeApplies(hist'.id, hist'.arg.n)) =>
    /\ TotalHeightNow > 0 =>
         scrollTopRatio' = Ratio(scrollTop, TotalHeightNow, containerHeight)
    /\ containerHeight' = hist'.arg.n
    /\ \A e \in Elements : dom'[e].scrollTop = dom[e].scrollTop
    /\ scrollTop' = scrollTop
    /\ rafQueue' = Append(rafQueue, Raf("resize", NULL, 0))

C36_RescaleStep ==
  (/\ hist'.op = "raf"
   /\ hist'.arg.kind = "resize"
   /\ scrollContainerElement # NULL
   /\ scrollTopRatio[1] > 0) =>
    /\ dom'[scrollContainerElement].scrollTop * scrollTopRatio[2]
         <= scrollTopRatio[1] * Max(0, TotalHeightNow - containerHeight)
    /\ (dom'[scrollContainerElement].scrollTop + 1) * scrollTopRatio[2]
         > scrollTopRatio[1] * Max(0, TotalHeightNow - containerHeight)
    /\ containerHeight' = containerHeight
    /\ scrollTopRatio' = scrollTopRatio

(* only the frame of a resize moves the offset of the surface by the ratio *)
C36_OtherStepsKeepOffset ==
  (hist'.op = "resize" /\ ~ResizeApplies(hist'.id, hist'.arg.n)) =>
    /\ containerHeight' = containerHeight
    /\ scrollTopRatio' = scrollTopRatio
    /\ rafQueue' = rafQueue

C36_ResizeOrder ==
  [][C36_ResizeStep /\ C36_RescaleStep /\ C36_OtherStepsKeepOffset]_vars

(* a resize took the ratio of the old height and waits for its frame *)
C36_Witness ==
  /\ hist.op = "resize"
  /\ containerHeight = hist.arg.n
  /\ scrollTopRatio[1] > 0
  /\ scrollTopRatio[2] > 1
  /\ rafQueue # <<>>
  /\ rafQueue[Len(rafQueue)].kind = "resize"

(* the frame of a resize moved the surface to a rescaled positive offset *)
C36_WitnessRescaled ==
  /\ hist.op = "raf"
  /\ hist.arg.kind = "resize"
  /\ scrollContainerElement # NULL
  /\ dom[scrollContainerElement].scrollTop > 0
  /\ dom[scrollContainerElement].scrollTop # scrollTop

---------------------------------------------------------------------------
(* SpecAttach: the scroll adapter attached to either of two surfaces and   *)
(* detached by dispose, while the surfaces scroll and are resized          *)
Surfaces == {1, 2}

InitAttach ==
  /\ InitIdleOn(Surfaces)
  /\ orderedIds = <<1, 2>>
  /\ maximizationConfig = FixedConfig
  /\ dataUnsubscribe = TRUE
  /\ providerSubscribed = 1
  /\ fn = [oldIds |-> {}, newIds |-> {}, result |-> "none"]

NextAttach ==
  \/ \E el \in Surfaces : setScrollContainer(el)
  \/ dispose
  \/ \E el \in Surfaces, s \in ScrollOffsets : UserScroll(el, s)
  \/ \E el \in Surfaces, h \in ClientHeights : Resize(el, h)
  \/ RunAnimationFrame
  \/ RunMicrotask

SpecAttach == InitAttach /\ [][NextAttach]_vars

(* C37: after any sequence of attach calls on possibly different surfaces  *)
(* and detach calls, at most one scroll listener and one connected resize  *)
(* observer of the adapter exist, both on the surface attached last, and   *)
(* after detach there are none                                             *)
C37_NoLeakedObservers ==
  \A e \in DOMAIN dom :
    /\ dom[e].listeners = IF e = scrollContainerElement THEN 1 ELSE 0
    /\ dom[e].observers = IF e = scrollContainerElement THEN 1 ELSE 0

(* surface 2 was attached after the adapter had listened to surface 1 *)
C37_Witness ==
  /\ hist.op = "setScrollContainer"
  /\ hist.id = 2
  /\ scrollTop = 250
  /\ dom[1].scrollTop = 250
  /\ dom[2].scrollTop = 0
  /\ dom[2].listeners = 1
  /\ dom[2].observers = 1
  /\ dom[1].listeners = 0

(* detached after the adapter had listened to a surface *)
C37_WitnessDetached ==
  /\ hist.op = "dispose"
  /\ scrollTop = 250
  /\ scrollContainerElement = NULL
  /\ \A e \in DOMAIN dom : dom[e].listeners = 0 /\ dom[e].observers = 0

---------------------------------------------------------------------------
(* SpecSubscription: construction, initialize, dispose and dataset changes *)
NextSubscription ==
  \/ \E aborted \in BOOLEAN : initialize(aborted)
  \/ dispose
  \/ \E o \in Orders(Ids) : DataChange(o)
  \/ RunMicrotask

SpecSubscription == Init /\ [][NextSubscription]_vars

(* C38: across construction, any number of initialize calls and dispose,  *)
(* the engine holds at most one active subscription to the data source (a  *)
(* new one is made only after the previous one is released) and none after *)
(* dispose, so each dataset change triggers exactly one rebuild            *)
C38_AtMostOne ==
  /\ providerSubscribed <= 1
  /\ providerSubscribed = (IF dataUnsubscribe THEN 1 ELSE 0)
  /\ hist.op = "dispose" => providerSubscribed = 0

C38_InitializeStep ==
  (hist'.op = "initialize" /\ ~hist'.arg.aborted) =>
    /\ providerSubscribed' = 1
    /\ dataUnsubscribe'
    /\ unsubscribeCalls' = unsubscribeCalls + providerSubscribed

C38_RebuildStep ==
  hist'.op = "dataChange" =>
    currentVersion' = currentVersion + (IF dataUnsubscribe THEN 1 ELSE 0)

C38_SingleSubscription ==
  [](C38_AtMostOne) /\ [][C38_InitializeStep /\ C38_RebuildStep]_vars

(* a dataset change rebuilt once after initialize had renewed the          *)
(* subscription of the constructor                                         *)
C38_Witness ==
  /\ hist.op = "dataChange"
  /\ hist.arg.after = "initialize"
  /\ unsubscribeCalls = 1
  /\ providerSubscribed = 1
  /\ currentVersion = 1

(* initialize subscribed again after dispose *)
C38_WitnessAfterDispose ==
  /\ hist.op = "initialize"
  /\ disposed
  /\ providerSubscribed = 1

---------------------------------------------------------------------------
(* Data source: core/DataProvider.ts; an item is modelled by its id, a     *)
(* selector by its name, an Error object by a code                         *)
MaxListLen == 3          \* items of a raw list of SpecProvider
PlaceholderCount == 10   \* options.placeholderCount ?? 10

ProviderIds == 1..(MaxListLen + 1)
ItemLists == {s \in Orders(ProviderIds) : Len(s) <= MaxListLen}
Selectors == {"none", "odd", "throws"}
ExternalError == 1
SelectorError == 2

(* state after `new DataProvider({})` *)
NewProvider ==
  [rawItems |-> <<>>, selectedItems |-> <<>>, isLoading |-> FALSE,
   isRefetching |-> FALSE, error |-> NULL, currentSelector |-> "none",
   notified |-> 0]

IsOdd(x) == x % 2 = 1

(* the selected items of a selector that returns *)
Select(selector, items) ==
  IF selector = "odd" /\ Len(items) > 0 THEN SelectSeq(items, IsOdd) ELSE items

(* DataProvider.applySelector; notify runs in `finally` *)
applySelector(p) ==
  IF p.currentSelector = "throws" /\ Len(p.rawItems) > 0
  THEN [p EXCEPT !.selectedItems = <<>>, !.error = SelectorError,
                 !.notified = @ + 1]
  ELSE [p EXCEPT !.selectedItems = Select(p.currentSelector, p.rawItems),
                 !.notified = @ + 1]

(* DataProvider.updateSelector *)
updateSelector(p, selector) ==
  IF p.currentSelector # selector
  THEN applySelector([p EXCEPT !.currentSelector = selector])
  ELSE p

(* the change detection of updateRawData *)
hasRawDataChanged(p, items, isLoading, error) ==
  \/ p.isLoading # isLoading
  \/ p.error # error
  \/ Len(p.rawItems) # Len(items)
  \/ /\ Len(items) > 0
     /\ \/ p.rawItems[1] # items[1]
        \/ p.rawItems[Len(p.rawItems)] # items[Len(items)]

(* DataProvider.updateRawData *)
updateRawData(p, items, isLoading, isRefetching, error) ==
  IF hasRawDataChanged(p, items, isLoading, error)
  THEN applySelector([p EXCEPT !.rawItems = items, !.isLoading = isLoading,
                               !.isRefetching = isRefetching, !.error = error])
  ELSE p

(* the placeholder state of getOrderedIds and getTotalCount *)
ShowsPlaceholders(p) ==
  p.isLoading /\ ~p.isRefetching /\ Len(p.selectedItems) = 0

(* DataProvider.getOrderedIds; `__placeholder-i` is the id -(i + 1) *)
getOrderedIds(p) ==
  IF ShowsPlaceholders(p)
  THEN [i \in 1..PlaceholderCount |-> 0 - i]
  ELSE p.selectedItems

(* SpecProvider: a data source that received a selector and a first list   *)
(* receives one more updateRawData                                         *)
InitProvider ==
  /\ InitIdle
  /\ orderedIds = <<>>
  /\ maximizationConfig = FixedConfig
  /\ dataUnsubscribe = TRUE
  /\ providerSubscribed = 1
  /\ \E selector \in Selectors, old \in ItemLists, items \in ItemLists,
        isLoading \in BOOLEAN, isRefetching \in BOOLEAN,
        error \in {NULL, ExternalError} :
       LET p == updateRawData(updateSelector(NewProvider, selector),
                              old, FALSE, FALSE, NULL) IN
       fn = [before |-> p, provider |-> p, items |-> items,
             isLoading |-> isLoading, isRefetching |-> isRefetching,
             error |-> error, done |-> FALSE]

UpdateRawData ==
  /\ ~fn.done
  /\ fn' = [fn EXCEPT !.done = TRUE,
                      !.provider = updateRawData(fn.provider, fn.items,
                                     fn.isLoading, fn.isRefetching, fn.error)]
  /\ hist' = Op("updateRawData", NULL, [items |-> fn.items])
  /\ UNCHANGED <<indexVars, scrollVars, managerVars, tmVars, envVars, rafQueue,
                 notifyVars, disposed, unsubscribeCalls, dataChanges,
                 maximizationConfig>>

NextProvider == UpdateRawData

SpecProvider == InitProvider /\ [][NextProvider]_vars

(* C39: after updateRawData(items, ...) returns, for every new item list   *)
(* that differs from the previous one in any id or position, getOrderedIds *)
(* is the id sequence of the current selector applied to the new items     *)
(* (outside the placeholder state) and the subscribers have been notified  *)
Reflects(p, items) ==
  /\ p.notified = fn.before.notified + 1
  /\ ~ShowsPlaceholders(p) => getOrderedIds(p) = Select(p.currentSelector, items)

C39_LatestRawData ==
  (/\ fn.done
   /\ fn.items # fn.before.rawItems
   /\ fn.before.currentSelector # "throws") =>
    Reflects(fn.provider, fn.items)

(* the same for the changes that the comparison of length, first id and    *)
(* last id can see                                                         *)
C39_DetectedChange ==
  (/\ fn.done
   /\ hasRawDataChanged(fn.before, fn.items, fn.isLoading, fn.error)
   /\ fn.before.currentSelector # "throws") =>
    Reflects(fn.provider, fn.items)

(* a list was replaced by one that detected changes tell apart *)
C39_WitnessDetected ==
  /\ fn.done
  /\ fn.before.rawItems = <<1, 2, 3>>
  /\ fn.items = <<1, 2, 4>>
  /\ fn.before.currentSelector = "odd"
  /\ getOrderedIds(fn.provider) = <<1>>

=============================================================================
